---- MODULE Spec2Model ----
(***************************************************************************)
(* A model of the Baba Is You solver (slanger/baba-solver).                *)
(*                                                                         *)
(* Part 1, the game engine: the bit-encoded grid cells, GameState, its     *)
(* constructor, ApplyMove and the predicates HaveWon, CheckIfPossibleToWin *)
(* and CalculateScore (BabaSolverCMake/GameState.cpp).                     *)
(* Part 2, the search engine: Solve and SolveOneIteration with the         *)
(* sequential phase, the workers of the parallel phase, the memo tables    *)
(* and the result selection (BabaSolver/Solver.cpp).                       *)
(*                                                                         *)
(* Two specifications: GameSpec applies ApplyMove to levels built with the *)
(* GameState constructor; Spec runs Solve on a level with chosen options.  *)
(***************************************************************************)
EXTENDS Integers, Sequences, FiniteSets, TLC

VARIABLES
    \* ---- GameSpec: one caller of GameState::ApplyMove
    state,          \* the receiver of the last ApplyMove (cur.state)
    dir_to_apply,   \* the direction of the last ApplyMove (cur.dir_to_apply)
    new_state,      \* the state the last ApplyMove returned
    layout,         \* the arguments of GameState's constructor in main: a grid and
                    \* the Babas' cells; NULL where the level is given as built
    \* ---- Spec: Solve and SolveOneIteration
    pc,                 \* where Solve / SolveOneIteration stands
    options,            \* SolverOptions
    initial_state,      \* the GameState object the caller handed to Solve
    current_state,      \* Solve's current_state: NULL or a GameState
    iter_root,          \* the initial_state parameter of the last SolveOneIteration call
    iteration,          \* Solve's loop counter i
    stack,              \* the sequential phase's stack of NextMove
    seen_states,        \* the sequential phase's memo table
    total_num_moves,
    total_cache_hits,
    total_cache_size,
    leaf_state_count,
    winning_state,      \* NULL or a GameState
    parallelism_roots,  \* sequence of GameState
    best_leaf_states,   \* sequence, one slot per root: NULL or a GameState
    next_thread_id,
    num_threads_finished,
    mutex,              \* 0 when free, else the index of the worker holding it
    workers,            \* one record of lambda locals per element of parallelism_roots
    result,             \* what Solve returned (NULL before it returns)
    null_deref          \* TRUE once a null shared_ptr has been dereferenced

game_vars == <<state, dir_to_apply, new_state, layout>>

solve_vars == <<pc, options, initial_state, current_state, iter_root, iteration, stack, seen_states,
                total_num_moves, total_cache_hits, total_cache_size, leaf_state_count,
                winning_state, parallelism_roots, best_leaf_states, next_thread_id,
                num_threads_finished, mutex, workers, result, null_deref>>

vars == <<game_vars, solve_vars>>

(***************************************************************************)
(* Program constants.                                                      *)
(***************************************************************************)
MAX_TURN_COUNT == 30
GRID_HEIGHT == 18
GRID_WIDTH == 18
DOOR_I == 12
DOOR_J == 4
BABA_DEAD == -1

\* enum class GameObject : uint16_t
BABA == 0
IMMOVABLE == 1
TILE == 2
ROCK == 3
DOOR == 4
KEY == 5
ROCK_TEXT == 6
IS_TEXT == 7
PUSH_TEXT == 8

\* enum class Direction : uint8_t
NO_DIRECTION == "NO_DIRECTION"
UP == "UP"
RIGHT == "RIGHT"
DOWN == "DOWN"
LEFT == "LEFT"

\* The four directions a NextMove can carry.
Directions == {UP, RIGHT, DOWN, LEFT}

\* A null std::shared_ptr<GameState>.
NULL == [nullptr |-> TRUE]

Rows == 0 .. (GRID_HEIGHT - 1)
Cols == 0 .. (GRID_WIDTH - 1)

\* struct Coordinate { int8_t i; int8_t j; }
Coordinate(ci, cj) == [i |-> ci, j |-> cj]

(***************************************************************************)
(* Grid cell model: a cell is a uint16_t bitmask, bit n for GameObject n.  *)
(***************************************************************************)
Bit(obj) == 2 ^ obj

\* A local variable: With([x \in {e} |-> body]) is body with x standing for the
\* value of e, computed once where x is declared.
With(f) == CHOOSE r \in {g[CHOOSE x \in DOMAIN g : TRUE] : g \in {f}} : TRUE

CellIsEmpty(cell) == cell = 0

CellContainsGameObject(cell, obj) == (cell \div Bit(obj)) % 2 = 1

CellContainsImmovableObject(cell) ==
    CellContainsGameObject(cell, IMMOVABLE) \/ CellContainsGameObject(cell, DOOR)

ALWAYS_MOVABLE_OBJECTS == <<KEY, ROCK_TEXT, IS_TEXT, PUSH_TEXT>>

\* CellContainsMovableObject counting a rock whether or not the rule is active.
RockAlwaysMovable(cell, rock_is_push_active) ==
    \/ \E k \in 1 .. Len(ALWAYS_MOVABLE_OBJECTS) :
          CellContainsGameObject(cell, ALWAYS_MOVABLE_OBJECTS[k])
    \/ CellContainsGameObject(cell, ROCK)

CellContainsMovableObject(cell, rock_is_push_active) ==
    \/ \E k \in 1 .. Len(ALWAYS_MOVABLE_OBJECTS) :
          CellContainsGameObject(cell, ALWAYS_MOVABLE_OBJECTS[k])
    \/ rock_is_push_active /\ CellContainsGameObject(cell, ROCK)

AddToCell(cell, obj) ==
    IF CellContainsGameObject(cell, obj) THEN cell ELSE cell + Bit(obj)

RemoveFromCell(cell, obj) ==
    IF CellContainsGameObject(cell, obj) THEN cell - Bit(obj) ELSE cell

(***************************************************************************)
(* GameState: private helpers.                                             *)
(***************************************************************************)
\* WillGoOutOfBounds answering that no step leaves the grid.
NeverOutOfBounds(i, j, delta_i, delta_j) == FALSE

WillGoOutOfBounds(i, j, delta_i, delta_j) ==
    \/ i = 0 /\ delta_i < 0
    \/ i = GRID_HEIGHT - 1 /\ delta_i > 0
    \/ j = 0 /\ delta_j < 0
    \/ j = GRID_WIDTH - 1 /\ delta_j > 0

AllBabasAlive(s) == s.baba1.i # BABA_DEAD /\ s.baba2.i # BABA_DEAD

BabasOnSameSpace(s) ==
    IF s.baba1.i = BABA_DEAD \/ s.baba2.i = BABA_DEAD
    THEN FALSE
    ELSE s.baba1.i = s.baba2.i /\ s.baba1.j = s.baba2.j

\* CheckRockIsPushIntact with the horizontal test alone.
CheckRockIsPushInRow(s) ==
    /\ s.is_text.j > 0 /\ s.is_text.j < GRID_WIDTH - 1
    /\ CellContainsGameObject(s.grid[s.is_text.i][s.is_text.j - 1], ROCK_TEXT)
    /\ CellContainsGameObject(s.grid[s.is_text.i][s.is_text.j + 1], PUSH_TEXT)

CheckRockIsPushIntact(s) ==
    \/ /\ s.is_text.i > 0 /\ s.is_text.i < GRID_HEIGHT - 1
       /\ CellContainsGameObject(s.grid[s.is_text.i - 1][s.is_text.j], ROCK_TEXT)
       /\ CellContainsGameObject(s.grid[s.is_text.i + 1][s.is_text.j], PUSH_TEXT)
    \/ /\ s.is_text.j > 0 /\ s.is_text.j < GRID_WIDTH - 1
       /\ CellContainsGameObject(s.grid[s.is_text.i][s.is_text.j - 1], ROCK_TEXT)
       /\ CellContainsGameObject(s.grid[s.is_text.i][s.is_text.j + 1], PUSH_TEXT)

\* The death check that marks no Baba dead.
BabaNeverMarkedDead(s, b) == s[b]

\* The death check of RecalculateState for one Baba (b is "baba1" or "baba2").
BabaAfterDeathCheck(s, b) ==
    IF s[b].i # BABA_DEAD /\ CellIsEmpty(s.grid[s[b].i][s[b].j])
    THEN Coordinate(BABA_DEAD, BABA_DEAD)
    ELSE s[b]

\* RecalculateState without the BabasOnSameSpace test.
RecalculateStateEachBaba(s) ==
    With([t \in {[s EXCEPT !.baba1 = BabaAfterDeathCheck(s, "baba1"),
                           !.baba2 = BabaAfterDeathCheck(s, "baba2")]} |->
          [t EXCEPT !.rock_is_push_active = CheckRockIsPushIntact(t)]])

RecalculateState(s) ==
    With([t \in {IF ~BabasOnSameSpace(s)
                 THEN [s EXCEPT !.baba1 = BabaAfterDeathCheck(s, "baba1"),
                                !.baba2 = BabaAfterDeathCheck(s, "baba2")]
                 ELSE s} |->
          [t EXCEPT !.rock_is_push_active = CheckRockIsPushIntact(t)]])

\* The object's move with _key and _is_text left as they were.
MoveOneObjectKeepingCache(s, obj, i, j, next_i, next_j) ==
    IF ~CellContainsGameObject(s.grid[i][j], obj)
    THEN s
    ELSE LET g1 == [s.grid EXCEPT ![i][j] = RemoveFromCell(@, obj)]
         IN  [s EXCEPT !.grid = [g1 EXCEPT ![next_i][next_j] = AddToCell(@, obj)]]

\* One round of the loop over ALWAYS_MOVABLE_OBJECTS in CheckCellAndMoveObjects:
\* obj leaves cell (i, j) for cell (next_i, next_j).
MoveOneObject(s, obj, i, j, next_i, next_j) ==
    IF ~CellContainsGameObject(s.grid[i][j], obj)
    THEN s
    ELSE LET g1 == [s.grid EXCEPT ![i][j] = RemoveFromCell(@, obj)]
             g2 == [g1 EXCEPT ![next_i][next_j] = AddToCell(@, obj)]
         IN  [s EXCEPT !.grid = g2,
                       !.is_text = IF obj = IS_TEXT THEN Coordinate(next_i, next_j) ELSE @,
                       !.key = IF obj = KEY THEN Coordinate(next_i, next_j) ELSE @]

RECURSIVE MoveAlwaysMovableObjects(_, _, _, _, _, _)
MoveAlwaysMovableObjects(s, k, i, j, next_i, next_j) ==
    IF k > Len(ALWAYS_MOVABLE_OBJECTS)
    THEN s
    ELSE With([t \in {MoveOneObject(s, ALWAYS_MOVABLE_OBJECTS[k], i, j, next_i, next_j)} |->
               MoveAlwaysMovableObjects(t, k + 1, i, j, next_i, next_j)])

\* The rock's move with the rock left behind in the cell it came from.
MoveRockLeavingCopy(s, cell, i, j, next_i, next_j) ==
    IF s.rock_is_push_active /\ CellContainsGameObject(cell, ROCK)
    THEN [s EXCEPT !.grid[next_i][next_j] = AddToCell(@, ROCK)]
    ELSE s

\* The rock's move made whether or not the rule is active.
MoveRockWhateverTheRule(s, cell, i, j, next_i, next_j) ==
    IF CellContainsGameObject(cell, ROCK)
    THEN LET g1 == [s.grid EXCEPT ![i][j] = RemoveFromCell(@, ROCK)]
         IN  [s EXCEPT !.grid = [g1 EXCEPT ![next_i][next_j] = AddToCell(@, ROCK)]]
    ELSE s

\* The rock's move at the end of CheckCellAndMoveObjects; cell is the content of
\* (i, j) read on entry.
MoveRock(s, cell, i, j, next_i, next_j) ==
    IF s.rock_is_push_active /\ CellContainsGameObject(cell, ROCK)
    THEN LET g1 == [s.grid EXCEPT ![i][j] = RemoveFromCell(@, ROCK)]
         IN  [s EXCEPT !.grid = [g1 EXCEPT ![next_i][next_j] = AddToCell(@, ROCK)]]
    ELSE s

\* The door edge case asking for the key only, whatever else the previous cell holds.
CanEnterDoorWithKey(prev_cell, rock_is_push_active) ==
    CellContainsGameObject(prev_cell, KEY)

\* The door edge case: the move into the door's cell succeeds only when the key is
\* the only movable object of the previous cell.
CanEnterDoor(prev_cell, rock_is_push_active) ==
    /\ CellContainsGameObject(prev_cell, KEY)
    /\ ~CellContainsMovableObject(RemoveFromCell(prev_cell, KEY), rock_is_push_active)

\* CheckCellAndMoveObjects moving the objects of its cell before it knows what the
\* rest of the chain answers.
RECURSIVE CheckCellAndMoveEagerly(_, _, _, _, _, _)
CheckCellAndMoveEagerly(s, i, j, delta_i, delta_j, prev_cell) ==
    LET cell == s.grid[i][j]
    IN  IF CellContainsGameObject(cell, IMMOVABLE)
        THEN [ok |-> FALSE, s |-> s]
        ELSE IF CellContainsGameObject(cell, DOOR)
        THEN [ok |-> CanEnterDoor(prev_cell, s.rock_is_push_active), s |-> s]
        ELSE IF ~CellContainsMovableObject(cell, s.rock_is_push_active)
        THEN [ok |-> TRUE, s |-> s]
        ELSE IF WillGoOutOfBounds(i, j, delta_i, delta_j)
        THEN [ok |-> FALSE, s |-> s]
        ELSE LET next_i == i + delta_i
                 next_j == j + delta_j
             IN  With([r \in {CheckCellAndMoveEagerly(s, next_i, next_j, delta_i, delta_j,
                                                      s.grid[i][j])} |->
                          [ok |-> r.ok,
                           s |-> With([t \in {MoveAlwaysMovableObjects(
                                                  r.s, 1, i, j, next_i, next_j)} |->
                                       MoveRock(t, cell, i, j, next_i, next_j)])]])

\* Returns [ok |-> the bool the method returns, s |-> the state it leaves].
RECURSIVE CheckCellAndMoveObjects(_, _, _, _, _, _)
CheckCellAndMoveObjects(s, i, j, delta_i, delta_j, prev_cell) ==
    LET cell == s.grid[i][j]
    IN  IF CellContainsGameObject(cell, IMMOVABLE)
        THEN [ok |-> FALSE, s |-> s]
        ELSE IF CellContainsGameObject(cell, DOOR)
        THEN [ok |-> CanEnterDoor(prev_cell, s.rock_is_push_active), s |-> s]
        ELSE IF ~CellContainsMovableObject(cell, s.rock_is_push_active)
        THEN [ok |-> TRUE, s |-> s]
        ELSE IF WillGoOutOfBounds(i, j, delta_i, delta_j)
        THEN [ok |-> FALSE, s |-> s]
        ELSE LET next_i == i + delta_i
                 next_j == j + delta_j
             IN  With([r \in {CheckCellAndMoveObjects(s, next_i, next_j, delta_i, delta_j,
                                                      s.grid[i][j])} |->
                          IF ~r.ok
                          THEN [ok |-> FALSE, s |-> r.s]
                          ELSE [ok |-> TRUE,
                                s |-> With([t \in {MoveAlwaysMovableObjects(
                                                       r.s, 1, i, j, next_i, next_j)} |->
                                            MoveRock(t, cell, i, j, next_i, next_j)])]])

DeltaI(direction) == CASE direction = UP -> -1 [] direction = DOWN -> 1 [] OTHER -> 0

DeltaJ(direction) == CASE direction = LEFT -> -1 [] direction = RIGHT -> 1 [] OTHER -> 0

\* The early returns of MoveBaba's switch: the Baba stands at the grid's edge.
BabaAtEdge(baba, direction) ==
    \/ direction = UP /\ baba.i = 0
    \/ direction = RIGHT /\ baba.j = GRID_WIDTH - 1
    \/ direction = DOWN /\ baba.i = GRID_HEIGHT - 1
    \/ direction = LEFT /\ baba.j = 0

\* MoveBaba handing the content of the Baba's own cell to the push check as the
\* previous cell.
MoveBabaCountingOrigin(s, b, direction) ==
    IF s[b].i = BABA_DEAD \/ BabaAtEdge(s[b], direction)
    THEN s
    ELSE LET delta_i == DeltaI(direction)
             delta_j == DeltaJ(direction)
         IN  With([r \in {CheckCellAndMoveObjects(s, s[b].i + delta_i, s[b].j + delta_j,
                                                  delta_i, delta_j, s.grid[s[b].i][s[b].j])} |->
                      IF ~r.ok
                      THEN r.s
                      ELSE [r.s EXCEPT ![b] = Coordinate(@.i + delta_i, @.j + delta_j)]])

\* MoveBaba without the update of the Baba's coordinate: the objects are pushed and
\* the Baba stays where it is.
MoveBabaWithoutStep(s, b, direction) ==
    IF s[b].i = BABA_DEAD \/ BabaAtEdge(s[b], direction)
    THEN s
    ELSE CheckCellAndMoveObjects(s, s[b].i + DeltaI(direction), s[b].j + DeltaJ(direction),
                                 DeltaI(direction), DeltaJ(direction), 0).s

\* b names the Baba the reference parameter is bound to: "baba1" or "baba2".
MoveBaba(s, b, direction) ==
    IF s[b].i = BABA_DEAD \/ BabaAtEdge(s[b], direction)
    THEN s
    ELSE LET delta_i == DeltaI(direction)
             delta_j == DeltaJ(direction)
         IN  With([r \in {CheckCellAndMoveObjects(s, s[b].i + delta_i, s[b].j + delta_j,
                                                  delta_i, delta_j, 0)} |->
                      IF ~r.ok
                      THEN r.s
                      ELSE [r.s EXCEPT ![b] = Coordinate(@.i + delta_i, @.j + delta_j)]])

(***************************************************************************)
(* GameState: public interface.                                            *)
(***************************************************************************)
\* ApplyMove's two MoveBaba calls with the rule flag recomputed between them.
MoveBothBabasRecalculating(s, direction) ==
    With([t \in {MoveBaba(s, "baba1", direction)} |->
         MoveBaba([t EXCEPT !.rock_is_push_active = CheckRockIsPushIntact(t)],
                  "baba2", direction)])

\* ApplyMove's two MoveBaba calls with the second one left out.
MoveFirstBabaOnly(s, direction) == MoveBaba(s, "baba1", direction)

\* The state after both Babas have moved, before the recalculation.
MoveBothBabas(s, direction) ==
    With([t \in {MoveBaba(s, "baba1", direction)} |-> MoveBaba(t, "baba2", direction)])

\* The copy constructor: each member, the grid, and the moves made so far.
GameStateCopy(other) ==
    [grid |-> other.grid, baba1 |-> other.baba1, baba2 |-> other.baba2,
     turn |-> other.turn, moves |-> SubSeq(other.moves, 1, other.turn),
     key |-> other.key, is_text |-> other.is_text,
     rock_is_push_active |-> other.rock_is_push_active]

\* moves holds _moves[0 .. _turn-1]: the copy constructor copies exactly that
\* prefix and nothing reads the array beyond it.
ApplyMove(s, direction) ==
    With([copy \in {GameStateCopy(s)} |->
    With([moved \in {MoveBothBabas(copy, direction)} |->
    With([t \in {RecalculateState(moved)} |->
         [t EXCEPT !.moves = Append(@, direction), !.turn = @ + 1]])])])

\* The receiver with both Babas moved on it, as if ApplyMove worked in place.
ReceiverMovedInPlace(s, direction) == MoveBothBabas(s, direction)

\* The receiver once ApplyMove has returned: the method is const and every
\* change it makes is made to new_state, the copy.
ReceiverAfterApplyMove(s, direction) == s

\* ResetContext leaving the turn count and the history as they are.
ResetContextKeepingHistory(s) == s

ResetContext(s) == [s EXCEPT !.turn = 0, !.moves = <<>>]

\* HaveWon asking also for both Babas to be alive.
HaveWonAlive(s) ==
    CellContainsGameObject(s.grid[DOOR_I][DOOR_J], KEY) /\ AllBabasAlive(s)

HaveWon(s) == CellContainsGameObject(s.grid[DOOR_I][DOOR_J], KEY)

\* One of the three scans of CheckIfPossibleToWin: a ROCK_TEXT or PUSH_TEXT in
\* rows lo_i..hi_i, columns lo_j..hi_j.
TextInRegion(s, lo_i, hi_i, lo_j, hi_j) ==
    \E i \in lo_i .. hi_i, j \in lo_j .. hi_j :
        \/ CellContainsGameObject(s.grid[i][j], ROCK_TEXT)
        \/ CellContainsGameObject(s.grid[i][j], PUSH_TEXT)

CheckIfPossibleToWin(s) ==
    /\ AllBabasAlive(s)
    /\ ~(s.is_text.i <= 2 \/ s.is_text.i >= 8 \/ s.is_text.j <= 9)
    /\ ~TextInRegion(s, 0, 2, 10, 17)
    /\ ~TextInRegion(s, 8, 10, 10, 17)
    /\ ~TextInRegion(s, 3, 7, 7, 9)

CheckIfTextCanBeAlignedWithRocks(s, rock_row) ==
    /\ ~(s.is_text.i # rock_row /\ s.is_text.j >= 15)
    /\ ~(s.is_text.j >= 15 /\ s.rock_is_push_active)
    /\ ~\E i \in (3 .. 7) \ {rock_row} : TextInRegion(s, i, i, 15, 17)

\* The number of rocks in row i, columns 7..9.
BridgeRockCount(s, i) == Cardinality({j \in 7 .. 9 : CellContainsGameObject(s.grid[i][j], ROCK)})

RockPoints(rock_count) ==
    CASE rock_count = 1 -> 100 [] rock_count = 2 -> 1000 [] rock_count = 3 -> 10000
      [] OTHER -> 0

RECURSIVE SumRockPoints(_, _)
SumRockPoints(s, i) == IF i > 7 THEN 0 ELSE RockPoints(BridgeRockCount(s, i)) + SumRockPoints(s, i + 1)

\* rock_row after the first loop: the last row of 3..7 with three rocks, else -1.
RockRow(s) ==
    LET full == {i \in 3 .. 7 : BridgeRockCount(s, i) = 3}
    IN  IF full = {} THEN -1 ELSE CHOOSE i \in full : \A k \in full : k <= i

TextAlignedCount(s, rock_row) ==
    (IF s.is_text.i = rock_row THEN 1 ELSE 0)
    + Cardinality({j \in 10 .. 17 :
                      \/ CellContainsGameObject(s.grid[rock_row][j], ROCK_TEXT)
                      \/ CellContainsGameObject(s.grid[rock_row][j], PUSH_TEXT)})

\* The text points with a single aligned text worth less than the tie-break term.
TextPointsWithinTieBreak(s, text_aligned_count) ==
    CASE text_aligned_count = 1 -> 10
      [] text_aligned_count = 2 -> 10000
      [] text_aligned_count = 3 -> (IF s.rock_is_push_active THEN 100000 ELSE 1000000)
      [] OTHER -> 0

TextPoints(s, text_aligned_count) ==
    CASE text_aligned_count = 1 -> 1000
      [] text_aligned_count = 2 -> 10000
      [] text_aligned_count = 3 -> (IF s.rock_is_push_active THEN 100000 ELSE 1000000)
      [] OTHER -> 0

Abs(n) == IF n < 0 THEN -n ELSE n

CalculateScore(s) ==
    IF ~CheckIfPossibleToWin(s)
    THEN -1000000
    ELSE LET rock_row == RockRow(s)
         IN  IF rock_row # -1 /\ ~CheckIfTextCanBeAlignedWithRocks(s, rock_row)
             THEN -1
             ELSE SumRockPoints(s, 3)
                  + (IF rock_row # -1 THEN TextPoints(s, TextAlignedCount(s, rock_row)) ELSE 0)
                  + (IF BabasOnSameSpace(s) THEN 10000000 ELSE 0)
                  + 100 - (Abs(s.key.i - DOOR_I) + Abs(s.key.j - DOOR_J))

\* GameStateEqual comparing the grid cells alone.
GameStateEqualOnGrid(lhs, rhs) ==
    \A i \in Rows, j \in Cols : lhs.grid[i][j] = rhs.grid[i][j]

\* GameStateEqual: both Babas' coordinates and every grid cell.
GameStateEqual(lhs, rhs) ==
    /\ lhs.baba1.i = rhs.baba1.i /\ lhs.baba1.j = rhs.baba1.j
    /\ lhs.baba2.i = rhs.baba2.i /\ lhs.baba2.j = rhs.baba2.j
    /\ \A i \in Rows, j \in Cols : lhs.grid[i][j] = rhs.grid[i][j]

(***************************************************************************)
(* GameStateHash. An unsigned number is the tuple of its bytes, the low     *)
(* byte first: four bytes for uint32_t, eight for std::size_t.             *)
(***************************************************************************)
\* static_cast<uint32_t>(v), for 0 <= v < 2^31
UInt32(v) == <<v % 256, (v \div 256) % 256, (v \div 65536) % 256, (v \div 16777216) % 256>>

\* static_cast<std::size_t>(x) of a uint32_t
Widen(x) == <<x[1], x[2], x[3], x[4], 0, 0, 0, 0>>

\* static_cast<uint8_t>(n) of an int8_t
AsUInt8(n) == (n + 256) % 256

\* a ^ b for a and b in 0 .. 15: row a + 1, column b + 1.
XorOfNibbles ==
    <<<<0, 1, 2, 3, 4, 5, 6, 7, 8, 9, 10, 11, 12, 13, 14, 15>>,
      <<1, 0, 3, 2, 5, 4, 7, 6, 9, 8, 11, 10, 13, 12, 15, 14>>,
      <<2, 3, 0, 1, 6, 7, 4, 5, 10, 11, 8, 9, 14, 15, 12, 13>>,
      <<3, 2, 1, 0, 7, 6, 5, 4, 11, 10, 9, 8, 15, 14, 13, 12>>,
      <<4, 5, 6, 7, 0, 1, 2, 3, 12, 13, 14, 15, 8, 9, 10, 11>>,
      <<5, 4, 7, 6, 1, 0, 3, 2, 13, 12, 15, 14, 9, 8, 11, 10>>,
      <<6, 7, 4, 5, 2, 3, 0, 1, 14, 15, 12, 13, 10, 11, 8, 9>>,
      <<7, 6, 5, 4, 3, 2, 1, 0, 15, 14, 13, 12, 11, 10, 9, 8>>,
      <<8, 9, 10, 11, 12, 13, 14, 15, 0, 1, 2, 3, 4, 5, 6, 7>>,
      <<9, 8, 11, 10, 13, 12, 15, 14, 1, 0, 3, 2, 5, 4, 7, 6>>,
      <<10, 11, 8, 9, 14, 15, 12, 13, 2, 3, 0, 1, 6, 7, 4, 5>>,
      <<11, 10, 9, 8, 15, 14, 13, 12, 3, 2, 1, 0, 7, 6, 5, 4>>,
      <<12, 13, 14, 15, 8, 9, 10, 11, 4, 5, 6, 7, 0, 1, 2, 3>>,
      <<13, 12, 15, 14, 9, 8, 11, 10, 5, 4, 7, 6, 1, 0, 3, 2>>,
      <<14, 15, 12, 13, 10, 11, 8, 9, 6, 7, 4, 5, 2, 3, 0, 1>>,
      <<15, 14, 13, 12, 11, 10, 9, 8, 7, 6, 5, 4, 3, 2, 1, 0>>>>

\* a ^ b for two bytes
XorByte(a, b) ==
    XorOfNibbles[(a % 16) + 1][(b % 16) + 1]
    + 16 * XorOfNibbles[(a \div 16) + 1][(b \div 16) + 1]

\* x ^ y on uint32_t
Xor32(x, y) ==
    <<XorByte(x[1], y[1]), XorByte(x[2], y[2]), XorByte(x[3], y[3]), XorByte(x[4], y[4])>>

\* x ^ y on std::size_t
Xor64(x, y) ==
    <<XorByte(x[1], y[1]), XorByte(x[2], y[2]), XorByte(x[3], y[3]), XorByte(x[4], y[4]),
      XorByte(x[5], y[5]), XorByte(x[6], y[6]), XorByte(x[7], y[7]), XorByte(x[8], y[8])>>

\* The column sums cols written in bytes from byte k on, carry coming in; the
\* carry out of the last byte is dropped: unsigned arithmetic wraps.
RECURSIVE Wrapped(_, _, _)
Wrapped(cols, k, carry) ==
    IF k > Len(cols) THEN <<>>
    ELSE <<(cols[k] + carry) % 256>> \o Wrapped(cols, k + 1, (cols[k] + carry) \div 256)

\* x * y on uint32_t
Times32(x, y) ==
    Wrapped(<<x[1] * y[1],
              x[1] * y[2] + x[2] * y[1],
              x[1] * y[3] + x[2] * y[2] + x[3] * y[1],
              x[1] * y[4] + x[2] * y[3] + x[3] * y[2] + x[4] * y[1]>>, 1, 0)

\* x * n on std::size_t, for 0 <= n < 256
Times64(x, n) ==
    Wrapped(<<x[1] * n, x[2] * n, x[3] * n, x[4] * n, x[5] * n, x[6] * n, x[7] * n, x[8] * n>>,
            1, 0)

\* w + x + y + z on std::size_t
Plus64(w, x, y, z) ==
    Wrapped(<<w[1] + x[1] + y[1] + z[1], w[2] + x[2] + y[2] + z[2],
              w[3] + x[3] + y[3] + z[3], w[4] + x[4] + y[4] + z[4],
              w[5] + x[5] + y[5] + z[5], w[6] + x[6] + y[6] + z[6],
              w[7] + x[7] + y[7] + z[7], w[8] + x[8] + y[8] + z[8]>>, 1, 0)

\* x >> 16 on uint32_t
ShiftRight16(x) == <<x[3], x[4], 0, 0>>

\* x << 6 on std::size_t
ShiftLeft6(x) ==
    <<(x[1] % 4) * 64,
      (x[2] % 4) * 64 + x[1] \div 4, (x[3] % 4) * 64 + x[2] \div 4,
      (x[4] % 4) * 64 + x[3] \div 4, (x[5] % 4) * 64 + x[4] \div 4,
      (x[6] % 4) * 64 + x[5] \div 4, (x[7] % 4) * 64 + x[6] \div 4,
      (x[8] % 4) * 64 + x[7] \div 4>>

\* x >> 2 on std::size_t
ShiftRight2(x) ==
    <<x[1] \div 4 + (x[2] % 4) * 64, x[2] \div 4 + (x[3] % 4) * 64,
      x[3] \div 4 + (x[4] % 4) * 64, x[4] \div 4 + (x[5] % 4) * 64,
      x[5] \div 4 + (x[6] % 4) * 64, x[6] \div 4 + (x[7] % 4) * 64,
      x[7] \div 4 + (x[8] % 4) * 64, x[8] \div 4>>

\* 0x45d9f3b
HashMultiplier == <<59, 159, 93, 4>>

\* 0x9e3779b9
HashIncrement == <<185, 121, 55, 158>>

\* ((x >> 16) ^ x) * 0x45d9f3b
ScrambleOnce(x) == Times32(Xor32(ShiftRight16(x), x), HashMultiplier)

\* The three lines of ApplyHash that scramble to_apply.
Scramble(to_apply) ==
    With([once \in {ScrambleOnce(to_apply)} |->
    With([twice \in {ScrambleOnce(once)} |->
         Xor32(ShiftRight16(twice), twice)])])

ApplyHash(to_apply, current_hash) ==
    Xor64(current_hash,
          Plus64(Widen(Scramble(to_apply)), Widen(HashIncrement),
                 ShiftLeft6(current_hash), ShiftRight2(current_hash)))

\* CombineUInt16s(CombineUInt8s(n1, n2), CombineUInt8s(n3, n4))
CombineUInt8Pairs(n1, n2, n3, n4) == <<n4, n3, n2, n1>>

\* n iterations of the inner loop of GameStateHash from column j on, n >= 1: the
\* first half of them, then the rest on the hash the first half leaves (half is
\* that hash, a tuple of bytes).
RECURSIVE HashRowFrom(_, _, _, _)
HashRowFrom(row, j, n, hash) ==
    IF n = 1 THEN ApplyHash(UInt32(row[j]), hash)
    ELSE [half \in Seq(0 .. 255) |-> HashRowFrom(row, j + n \div 2, n - n \div 2, half)]
             [HashRowFrom(row, j, n \div 2, hash)]

\* n iterations of the outer loop of GameStateHash from row i on, n >= 1.
RECURSIVE HashCellsFrom(_, _, _, _)
HashCellsFrom(grid, i, n, hash) ==
    IF n = 1 THEN HashRowFrom(grid[i], 0, GRID_WIDTH, hash)
    ELSE [half \in Seq(0 .. 255) |-> HashCellsFrom(grid, i + n \div 2, n - n \div 2, half)]
             [HashCellsFrom(grid, i, n \div 2, hash)]

\* The hash that reads the turn count as well.
GameStateHashWithTurn(s) ==
    HashCellsFrom(s.grid, 0, GRID_HEIGHT,
        Times64(Widen(CombineUInt8Pairs(AsUInt8(s.baba1.i), AsUInt8(s.baba1.j),
                                        AsUInt8(s.baba2.i), AsUInt8(s.turn))), 37))

GameStateHash(s) ==
    HashCellsFrom(s.grid, 0, GRID_HEIGHT,
        Times64(Widen(CombineUInt8Pairs(AsUInt8(s.baba1.i), AsUInt8(s.baba1.j),
                                        AsUInt8(s.baba2.i), AsUInt8(s.baba2.j))), 37))

(***************************************************************************)
(* Construction.                                                           *)
(***************************************************************************)
\* The last cell in row-major order that holds obj, or (-1, -1): what the
\* constructor's scan leaves in _key and _is_text.
LastCellWith(grid, obj) ==
    LET hits == {c \in Rows \X Cols : CellContainsGameObject(grid[c[1]][c[2]], obj)}
    IN  IF hits = {}
        THEN Coordinate(-1, -1)
        ELSE LET c == CHOOSE c \in hits :
                          \A d \in hits : d[1] < c[1] \/ (d[1] = c[1] /\ d[2] <= c[2])
             IN  Coordinate(c[1], c[2])

\* The constructor's test without the test of _is_text.
ValidGridWithoutTextCheck(grid) ==
    /\ LastCellWith(grid, KEY).i # -1
    /\ CellContainsGameObject(grid[DOOR_I][DOOR_J], DOOR)

\* The layouts the constructor does not abort on.
ValidGrid(grid) ==
    /\ LastCellWith(grid, KEY).i # -1
    /\ LastCellWith(grid, IS_TEXT).i # -1
    /\ CellContainsGameObject(grid[DOOR_I][DOOR_J], DOOR)

\* GameState::GameState(grid, baba1, baba2)
GameStateCtor(grid, baba1, baba2) ==
    RecalculateState([grid |-> grid, baba1 |-> baba1, baba2 |-> baba2,
                      turn |-> 0, moves |-> <<>>,
                      key |-> LastCellWith(grid, KEY),
                      is_text |-> LastCellWith(grid, IS_TEXT),
                      rock_is_push_active |-> FALSE])

\* A grid from a set of placements <<i, j, obj>>: uint16_t grid[..][..]{} followed
\* by one AddToCellInPlace per placement.
RECURSIVE CellOf(_, _)
CellOf(objs, n) ==
    IF n > PUSH_TEXT THEN 0
    ELSE (IF n \in objs THEN Bit(n) ELSE 0) + CellOf(objs, n + 1)

GridOf(placed) ==
    [i \in Rows |-> [j \in Cols |-> CellOf({p[3] : p \in {q \in placed : q[1] = i /\ q[2] = j}}, 0)]]

Rect(lo_i, hi_i, lo_j, hi_j, obj) == {<<i, j, obj>> : i \in lo_i .. hi_i, j \in lo_j .. hi_j}

\* The four platforms of tiles both supplied levels lay down.
PlatformTiles ==
    Rect(3, 7, 2, 6, TILE) \cup Rect(3, 7, 10, 14, TILE)
    \cup Rect(10, 14, 2, 6, TILE) \cup Rect(9, 13, 10, 14, TILE)

FloatiestPlatformsLevel ==
    GameStateCtor(
        GridOf(PlatformTiles
               \cup Rect(0, 0, 0, 2, IMMOVABLE) \cup Rect(0, 0, 7, 9, IMMOVABLE)
               \cup Rect(16, 16, 0, 2, IMMOVABLE) \cup Rect(17, 17, 0, 3, IMMOVABLE)
               \cup Rect(15, 17, 15, 17, IMMOVABLE)
               \cup {<<4, 3, ROCK>>, <<6, 5, ROCK>>, <<6, 11, ROCK>>,
                     <<4, 11, ROCK_TEXT>>, <<4, 12, IS_TEXT>>, <<4, 13, PUSH_TEXT>>,
                     <<DOOR_I, DOOR_J, DOOR>>, <<11, 12, KEY>>}),
        Coordinate(5, 4), Coordinate(5, 12))

TestLevel ==
    GameStateCtor(
        GridOf(PlatformTiles
               \cup {<<DOOR_I, DOOR_J, DOOR>>, <<12, 3, KEY>>, <<4, 12, IS_TEXT>>}),
        Coordinate(12, 2), Coordinate(5, 12))

(***************************************************************************)
(* Search engine: the pieces of one loop round, shared by the sequential   *)
(* phase and the workers.                                                  *)
(***************************************************************************)
INT_MIN == -2147483647 - 1

\* struct NextMove
NextMove(s, direction) == [state |-> s, dir_to_apply |-> direction]

\* The four stack.push calls, in the order of the code: LEFT ends on top.
PushNextMoves(stk, s) ==
    stk \o <<NextMove(s, UP), NextMove(s, RIGHT), NextMove(s, DOWN), NextMove(s, LEFT)>>

Top(stk) == stk[Len(stk)]

Pop(stk) == SubSeq(stk, 1, Len(stk) - 1)

\* A memo table is a set of entries [key |-> GameState, turn |-> uint8_t], at most
\* one per class of GameStateEqual.
HasEntry(seen, s) == \E e \in seen : GameStateEqual(e.key, s)

EntryOf(seen, s) == CHOOSE e \in seen : GameStateEqual(e.key, s)

\* if (new_state->_turn <= options.max_cache_depth)
CacheConsulted(s, opts) == s.turn <= opts.max_cache_depth

\* The comparison with > for >=.
TurnDeeper(turn, recorded) == turn > recorded

\* The comparison that makes a found entry a cache hit.
TurnNotShallower(turn, recorded) == turn >= recorded

\* The round ends at ++cache_hits; continue.
CacheHit(seen, s, opts) ==
    /\ CacheConsulted(s, opts)
    /\ HasEntry(seen, s)
    /\ TurnNotShallower(s.turn, EntryOf(seen, s).turn)

\* The table after the memo check: insert, or lower the recorded turn.
CacheAfter(seen, s, opts) ==
    IF ~CacheConsulted(s, opts) THEN seen
    ELSE IF ~HasEntry(seen, s) THEN seen \cup {[key |-> s, turn |-> s.turn]}
    ELSE LET e == EntryOf(seen, s)
         IN  IF TurnNotShallower(s.turn, e.turn)
             THEN seen
             ELSE (seen \ {e}) \cup {[key |-> e.key, turn |-> s.turn]}

\* The test with > for >=: a fork root one turn deeper.
IsParallelismRootDeeper(s, opts) == s.turn > opts.parallelism_depth

\* if (new_state->_turn >= options.parallelism_depth)
IsParallelismRoot(s, opts) == s.turn >= opts.parallelism_depth

\* if (new_state->_turn >= options.max_turn_depth)
IsLeaf(s, opts) == s.turn >= opts.max_turn_depth

\* The selection taking the first leaf it meets.
RECURSIVE SelectFirstLeaf(_, _, _, _)
SelectFirstLeaf(leaves, k, best_score, best_leaf_state) ==
    IF k > Len(leaves) THEN best_leaf_state
    ELSE IF leaves[k] = NULL THEN SelectFirstLeaf(leaves, k + 1, best_score, best_leaf_state)
    ELSE leaves[k]

\* The loop over best_leaf_states at the end of SolveOneIteration, from slot k on,
\* with best_score / best_leaf_state as they stand.
RECURSIVE SelectBestLeaf(_, _, _, _)
SelectBestLeaf(leaves, k, best_score, best_leaf_state) ==
    IF k > Len(leaves) THEN best_leaf_state
    ELSE IF leaves[k] = NULL THEN SelectBestLeaf(leaves, k + 1, best_score, best_leaf_state)
    ELSE With([score \in {CalculateScore(leaves[k])} |->
                  IF score > best_score
                  THEN SelectBestLeaf(leaves, k + 1, score, leaves[k])
                  ELSE SelectBestLeaf(leaves, k + 1, best_score, best_leaf_state)])

\* The test letting a max_turn_depth of MAX_TURN_COUNT + 1 through.
OptionsRejectedAboveCapacityPlusOne(opts) == opts.max_turn_depth > MAX_TURN_COUNT + 1

\* if (options.max_turn_depth > MAX_TURN_COUNT) return nullptr;
OptionsRejected(opts) == opts.max_turn_depth > MAX_TURN_COUNT

(***************************************************************************)
(* Solve and the sequential phase of SolveOneIteration.                    *)
(***************************************************************************)
\* What reading through a null shared_ptr can do: end the process, or go on.
NullOutcomes == {"crashed", "survived"}

\* The state that applying the directions of ms in order, from s on, ends in.
RECURSIVE Replay(_, _)

SolveStart ==
    /\ pc = "start"
    /\ IF OptionsRejected(options)
       THEN /\ result' = NULL
            /\ pc' = "done"
            /\ UNCHANGED current_state
       ELSE /\ current_state' = initial_state
            /\ pc' = "iter_check"
            /\ UNCHANGED result
    /\ iteration' = 0
    /\ UNCHANGED <<game_vars, options, initial_state, iter_root, stack, seen_states,
                   total_num_moves, total_cache_hits, total_cache_size, leaf_state_count,
                   winning_state, parallelism_roots, best_leaf_states, next_thread_id,
                   num_threads_finished, mutex, workers, null_deref>>

\* The for loop's test fails: return current_state.
SolveReturn ==
    /\ pc = "iter_check"
    /\ iteration >= options.iteration_count
    /\ result' = current_state
    /\ pc' = "done"
    /\ UNCHANGED <<game_vars, options, initial_state, current_state, iter_root, iteration,
                   stack, seen_states, total_num_moves, total_cache_hits, total_cache_size,
                   leaf_state_count, winning_state, parallelism_roots, best_leaf_states,
                   next_thread_id, num_threads_finished, mutex, workers, null_deref>>

\* current_state->ResetContext() and the start of SolveOneIteration. In the first
\* iteration current_state is the caller's object, which ResetContext changes.
IterationStart ==
    /\ pc = "iter_check"
    /\ iteration < options.iteration_count
    /\ current_state # NULL
    /\ LET root == ResetContext(current_state)
       IN  /\ current_state' = root
           /\ iter_root' = root
           /\ initial_state' = IF iteration = 0 THEN root ELSE initial_state
           /\ stack' = PushNextMoves(<<>>, root)
           /\ seen_states' = {[key |-> root, turn |-> 0]}
    /\ total_num_moves' = 0
    /\ total_cache_hits' = 0
    /\ total_cache_size' = 0
    /\ leaf_state_count' = 0
    /\ winning_state' = NULL
    /\ parallelism_roots' = <<>>
    /\ best_leaf_states' = <<>>
    /\ workers' = <<>>
    /\ pc' = "sequential"
    /\ UNCHANGED <<game_vars, options, iteration, next_thread_id, num_threads_finished,
                   mutex, result, null_deref>>

\* current_state->ResetContext() through a null current_state.
IterationNullDeref ==
    /\ pc = "iter_check"
    /\ iteration < options.iteration_count
    /\ current_state = NULL
    /\ null_deref' = TRUE
    /\ pc' = "crashed"
    /\ UNCHANGED <<game_vars, options, initial_state, current_state, iter_root, iteration,
                   stack, seen_states, total_num_moves, total_cache_hits, total_cache_size,
                   leaf_state_count, winning_state, parallelism_roots, best_leaf_states,
                   next_thread_id, num_threads_finished, mutex, workers, result>>

\* One round of the sequential while loop.
SequentialStep ==
    /\ pc = "sequential"
    /\ stack # <<>>
    /\ LET cur == Top(stack)
           popped == Pop(stack)
       IN  \E child \in {ApplyMove(cur.state, cur.dir_to_apply)} :
           /\ state' = cur.state
           /\ dir_to_apply' = cur.dir_to_apply
           /\ new_state' = child
           /\ total_num_moves' = total_num_moves + 1
           /\ IF HaveWon(child)
              THEN /\ winning_state' = child
                   /\ pc' = "after_loop"
                   /\ stack' = popped
                   /\ UNCHANGED <<seen_states, total_cache_hits, parallelism_roots>>
              ELSE /\ UNCHANGED <<winning_state, pc>>
                   /\ IF CacheHit(seen_states, child, options)
                      THEN /\ total_cache_hits' = total_cache_hits + 1
                           /\ stack' = popped
                           /\ UNCHANGED <<seen_states, parallelism_roots>>
                      ELSE /\ seen_states' = CacheAfter(seen_states, child, options)
                           /\ UNCHANGED total_cache_hits
                           /\ IF ~CheckIfPossibleToWin(child)
                              THEN /\ stack' = popped
                                   /\ UNCHANGED parallelism_roots
                              ELSE IF IsParallelismRoot(child, options)
                              THEN /\ parallelism_roots' = Append(parallelism_roots, child)
                                   /\ stack' = popped
                              ELSE /\ stack' = PushNextMoves(popped, child)
                                   /\ UNCHANGED parallelism_roots
    /\ UNCHANGED <<layout, options, initial_state, current_state, iter_root, iteration,
                   total_cache_size, leaf_state_count, best_leaf_states, next_thread_id,
                   num_threads_finished, mutex, workers, result, null_deref>>

\* while (!stack.empty()) ends.
SequentialExit ==
    /\ pc = "sequential"
    /\ stack = <<>>
    /\ pc' = "after_loop"
    /\ UNCHANGED <<game_vars, options, initial_state, current_state, iter_root, iteration,
                   stack, seen_states, total_num_moves, total_cache_hits, total_cache_size,
                   leaf_state_count, winning_state, parallelism_roots, best_leaf_states,
                   next_thread_id, num_threads_finished, mutex, workers, result, null_deref>>

\* The lambda's locals before a thread picks the element up.
NewWorker ==
    [pc |-> "unstarted", thread_id |-> 0, stack |-> <<>>, local_seen_states |-> {},
     num_moves |-> 0, num_cache_hits |-> 0, leaf_count |-> 0, best_score |-> INT_MIN,
     best_leaf_state |-> NULL, new_state |-> NULL]

\* Between the loop and std::for_each: the shared data of the parallel phase.
AfterLoop ==
    /\ pc = "after_loop"
    /\ total_cache_size' = Cardinality(seen_states)
    /\ leaf_state_count' = 0
    /\ best_leaf_states' = [k \in 1 .. Len(parallelism_roots) |-> NULL]
    /\ IF winning_state = NULL
       THEN /\ next_thread_id' = 0
            /\ num_threads_finished' = 0
            /\ mutex' = 0
            /\ workers' = [k \in 1 .. Len(parallelism_roots) |-> NewWorker]
            /\ pc' = "parallel"
       ELSE /\ pc' = "results"
            /\ UNCHANGED <<next_thread_id, num_threads_finished, mutex, workers>>
    /\ UNCHANGED <<game_vars, options, initial_state, current_state, iter_root, iteration,
                   stack, seen_states, total_num_moves, total_cache_hits, winning_state,
                   parallelism_roots, result, null_deref>>

(***************************************************************************)
(* The parallel phase: one worker per element of parallelism_roots.        *)
(***************************************************************************)
\* The most elements std::for_each(std::execution::par, ...) works on at one time.
MaxThreads == 2

WorkerIds == 1 .. Len(workers)

ActiveWorkers == {w \in WorkerIds : workers[w].pc \notin {"unstarted", "done"}}

\* The rest of a worker's loop round, from ApplyMove on. wr is the worker's locals
\* with num_moves counted already.
WorkerRound(wr, opts) ==
    LET cur == Top(wr.stack)
        popped == Pop(wr.stack)
    IN  With([child \in {ApplyMove(cur.state, cur.dir_to_apply)} |->
        IF HaveWon(child)
        THEN [wr EXCEPT !.stack = popped, !.new_state = child, !.pc = "lock_win"]
        ELSE IF CacheHit(wr.local_seen_states, child, opts)
        THEN [wr EXCEPT !.stack = popped, !.new_state = child, !.pc = "loop",
                        !.num_cache_hits = @ + 1]
        ELSE LET seen == CacheAfter(wr.local_seen_states, child, opts)
                 w1 == [wr EXCEPT !.stack = popped, !.new_state = child, !.pc = "loop",
                                  !.local_seen_states = seen]
             IN  IF ~CheckIfPossibleToWin(child)
                 THEN w1
                 ELSE IF IsLeaf(child, opts)
                 THEN With([score \in {CalculateScore(child)} |->
                               IF score > w1.best_score
                               THEN [w1 EXCEPT !.leaf_count = @ + 1, !.best_score = score,
                                               !.best_leaf_state = child]
                               ELSE [w1 EXCEPT !.leaf_count = @ + 1]])
                 ELSE [w1 EXCEPT !.stack = PushNextMoves(popped, child)]])

\* The lambda's locals at the head of the while loop's first round.
StartedWorker(root, seen) ==
    [NewWorker EXCEPT !.stack = PushNextMoves(<<>>, root), !.local_seen_states = seen,
                      !.pc = "loop"]

\* The worker's while loop run from wr to its end, alone: to the break of the win
\* branch (pc "lock_win") or to the empty stack.
RECURSIVE WorkerSearch(_, _)
WorkerSearch(wr, opts) ==
    IF wr.pc # "loop" \/ wr.stack = <<>>
    THEN wr
    ELSE With([next \in {WorkerRound([wr EXCEPT !.num_moves = @ + 1], opts)} |->
               WorkerSearch(next, opts)])

\* What a worker step leaves alone, the shared data of the phase apart.
WorkerFrame ==
    UNCHANGED <<game_vars, pc, options, initial_state, current_state, iter_root, iteration,
                stack, seen_states, parallelism_roots, result, null_deref>>

\* A thread picks element w up and waits for the mutex of the first lock_guard.
WorkerLockId(w) ==
    /\ pc = "parallel"
    /\ workers[w].pc = "unstarted"
    /\ Cardinality(ActiveWorkers) < MaxThreads
    /\ mutex = 0
    /\ mutex' = w
    /\ workers' = [workers EXCEPT ![w].pc = "cs_id"]
    /\ WorkerFrame
    /\ UNCHANGED <<total_num_moves, total_cache_hits, total_cache_size, leaf_state_count,
                   winning_state, best_leaf_states, next_thread_id, num_threads_finished>>

\* The first lock_guard never released: the id is taken and the worker goes on
\* with the mutex in its hands.
WorkerTakeIdKeepingLock(w) ==
    /\ pc = "parallel"
    /\ workers[w].pc = "cs_id"
    /\ mutex = w
    /\ next_thread_id' = (next_thread_id + 1) % 65536
    /\ workers' = [workers EXCEPT ![w] =
                      [@ EXCEPT !.thread_id = next_thread_id,
                                !.stack = PushNextMoves(<<>>, parallelism_roots[w]),
                                !.local_seen_states = seen_states,
                                !.pc = "loop"]]
    /\ WorkerFrame
    /\ UNCHANGED <<total_num_moves, total_cache_hits, total_cache_size, leaf_state_count,
                   winning_state, best_leaf_states, num_threads_finished, mutex>>

\* The worker's table made not of seen_states alone but of it and of what the
\* workers at work have put into theirs so far: one table seen by all.
WorkerTakeIdSharingTable(w) ==
    /\ pc = "parallel"
    /\ workers[w].pc = "cs_id"
    /\ mutex = w
    /\ next_thread_id' = (next_thread_id + 1) % 65536
    /\ mutex' = 0
    /\ workers' = [workers EXCEPT ![w] =
                      [@ EXCEPT !.thread_id = next_thread_id,
                                !.stack = PushNextMoves(<<>>, parallelism_roots[w]),
                                !.local_seen_states =
                                    seen_states
                                    \cup UNION {workers[v].local_seen_states : v \in WorkerIds},
                                !.pc = "loop"]]
    /\ WorkerFrame
    /\ UNCHANGED <<total_num_moves, total_cache_hits, total_cache_size, leaf_state_count,
                   winning_state, best_leaf_states, num_threads_finished>>

\* thread_id = next_thread_id++ (uint16_t), the lock released; then the worker's
\* stack and its copy of seen_states.
WorkerTakeId(w) ==
    /\ pc = "parallel"
    /\ workers[w].pc = "cs_id"
    /\ mutex = w
    /\ next_thread_id' = (next_thread_id + 1) % 65536
    /\ mutex' = 0
    /\ workers' = [workers EXCEPT ![w] =
                      [@ EXCEPT !.thread_id = next_thread_id,
                                !.stack = PushNextMoves(<<>>, parallelism_roots[w]),
                                !.local_seen_states = seen_states,
                                !.pc = "loop"]]
    /\ WorkerFrame
    /\ UNCHANGED <<total_num_moves, total_cache_hits, total_cache_size, leaf_state_count,
                   winning_state, best_leaf_states, num_threads_finished>>

\* The head of the worker's while loop: leave it when the stack is empty, else
\* count the move and, unless it is a move to print, finish the round.
WorkerLoop(w) ==
    /\ pc = "parallel"
    /\ workers[w].pc = "loop"
    /\ LET wr == workers[w]
           counted == [wr EXCEPT !.num_moves = @ + 1]
       IN  workers' = [workers EXCEPT ![w] =
               IF wr.stack = <<>> THEN [wr EXCEPT !.pc = "lock_finish"]
               ELSE IF counted.num_moves % options.print_every_n_moves = 0
               THEN [counted EXCEPT !.pc = "lock_print"]
               ELSE WorkerRound(counted, options)]
    /\ WorkerFrame
    /\ UNCHANGED <<total_num_moves, total_cache_hits, total_cache_size, leaf_state_count,
                   winning_state, best_leaf_states, next_thread_id, num_threads_finished,
                   mutex>>

\* std::lock_guard around the progress line.
WorkerLockPrint(w) ==
    /\ pc = "parallel"
    /\ workers[w].pc = "lock_print"
    /\ mutex = 0
    /\ mutex' = w
    /\ workers' = [workers EXCEPT ![w].pc = "cs_print"]
    /\ WorkerFrame
    /\ UNCHANGED <<total_num_moves, total_cache_hits, total_cache_size, leaf_state_count,
                   winning_state, best_leaf_states, next_thread_id, num_threads_finished>>

\* The progress line's lock_guard kept for the rest of the round.
WorkerPrintHoldingLock(w) ==
    /\ pc = "parallel"
    /\ workers[w].pc = "cs_print"
    /\ mutex = w
    /\ workers' = [workers EXCEPT ![w] = WorkerRound(@, options)]
    /\ WorkerFrame
    /\ UNCHANGED <<total_num_moves, total_cache_hits, total_cache_size, leaf_state_count,
                   winning_state, best_leaf_states, next_thread_id, num_threads_finished,
                   mutex>>

\* The line is printed and the lock released; the round goes on.
WorkerPrint(w) ==
    /\ pc = "parallel"
    /\ workers[w].pc = "cs_print"
    /\ mutex = w
    /\ mutex' = 0
    /\ workers' = [workers EXCEPT ![w] = WorkerRound(@, options)]
    /\ WorkerFrame
    /\ UNCHANGED <<total_num_moves, total_cache_hits, total_cache_size, leaf_state_count,
                   winning_state, best_leaf_states, next_thread_id, num_threads_finished>>

\* std::lock_guard of the win branch.
WorkerLockWin(w) ==
    /\ pc = "parallel"
    /\ workers[w].pc = "lock_win"
    /\ mutex = 0
    /\ mutex' = w
    /\ workers' = [workers EXCEPT ![w].pc = "cs_win"]
    /\ WorkerFrame
    /\ UNCHANGED <<total_num_moves, total_cache_hits, total_cache_size, leaf_state_count,
                   winning_state, best_leaf_states, next_thread_id, num_threads_finished>>

\* winning_state = new_state; best_leaf_state = new_state; break;
WorkerRecordWin(w) ==
    /\ pc = "parallel"
    /\ workers[w].pc = "cs_win"
    /\ mutex = w
    /\ mutex' = 0
    /\ winning_state' = workers[w].new_state
    /\ workers' = [workers EXCEPT ![w] =
                      [@ EXCEPT !.best_leaf_state = workers[w].new_state, !.pc = "lock_finish"]]
    /\ WorkerFrame
    /\ UNCHANGED <<total_num_moves, total_cache_hits, total_cache_size, leaf_state_count,
                   best_leaf_states, next_thread_id, num_threads_finished>>

\* std::lock_guard of the completion block.
WorkerLockFinish(w) ==
    /\ pc = "parallel"
    /\ workers[w].pc = "lock_finish"
    /\ mutex = 0
    /\ mutex' = w
    /\ workers' = [workers EXCEPT ![w].pc = "cs_finish"]
    /\ WorkerFrame
    /\ UNCHANGED <<total_num_moves, total_cache_hits, total_cache_size, leaf_state_count,
                   winning_state, best_leaf_states, next_thread_id, num_threads_finished>>

\* The completion block with every worker writing its best leaf to the first slot.
WorkerFinishSharingSlot(w) ==
    /\ pc = "parallel"
    /\ workers[w].pc = "cs_finish"
    /\ mutex = w
    /\ mutex' = 0
    /\ num_threads_finished' = (num_threads_finished + 1) % 65536
    /\ total_num_moves' = total_num_moves + workers[w].num_moves
    /\ total_cache_hits' = total_cache_hits + workers[w].num_cache_hits
    /\ total_cache_size' = total_cache_size + Cardinality(workers[w].local_seen_states)
    /\ leaf_state_count' = leaf_state_count + workers[w].leaf_count
    /\ best_leaf_states' = [best_leaf_states EXCEPT ![1] = workers[w].best_leaf_state]
    /\ workers' = [workers EXCEPT ![w].pc = "done"]
    /\ WorkerFrame
    /\ UNCHANGED <<winning_state, next_thread_id>>

\* The completion block adding to the counters as they stood when the parallel
\* phase began: what the workers that finished before added is lost.
WorkerFinishLosingUpdates(w) ==
    /\ pc = "parallel"
    /\ workers[w].pc = "cs_finish"
    /\ mutex = w
    /\ mutex' = 0
    /\ num_threads_finished' = (num_threads_finished + 1) % 65536
    /\ total_num_moves' = IF num_threads_finished = 0
                          THEN total_num_moves + workers[w].num_moves
                          ELSE total_num_moves
    /\ total_cache_hits' = total_cache_hits + workers[w].num_cache_hits
    /\ total_cache_size' = total_cache_size + Cardinality(workers[w].local_seen_states)
    /\ leaf_state_count' = workers[w].leaf_count
    /\ best_leaf_states' = [best_leaf_states EXCEPT ![workers[w].thread_id + 1] =
                               workers[w].best_leaf_state]
    /\ workers' = [workers EXCEPT ![w].pc = "done"]
    /\ WorkerFrame
    /\ UNCHANGED <<winning_state, next_thread_id>>

\* The completion block: the worker's counts and best leaf go to the shared data.
WorkerFinish(w) ==
    /\ pc = "parallel"
    /\ workers[w].pc = "cs_finish"
    /\ mutex = w
    /\ mutex' = 0
    /\ num_threads_finished' = (num_threads_finished + 1) % 65536
    /\ total_num_moves' = total_num_moves + workers[w].num_moves
    /\ total_cache_hits' = total_cache_hits + workers[w].num_cache_hits
    /\ total_cache_size' = total_cache_size + Cardinality(workers[w].local_seen_states)
    /\ leaf_state_count' = leaf_state_count + workers[w].leaf_count
    /\ best_leaf_states' = [best_leaf_states EXCEPT ![workers[w].thread_id + 1] =
                               workers[w].best_leaf_state]
    /\ workers' = [workers EXCEPT ![w].pc = "done"]
    /\ WorkerFrame
    /\ UNCHANGED <<winning_state, next_thread_id>>

\* std::for_each returns once every element has been worked on.
ParallelJoin ==
    /\ pc = "parallel"
    /\ \A w \in WorkerIds : workers[w].pc = "done"
    /\ pc' = "results"
    /\ UNCHANGED <<game_vars, options, initial_state, current_state, iter_root, iteration,
                   stack, seen_states, total_num_moves, total_cache_hits, total_cache_size,
                   leaf_state_count, winning_state, parallelism_roots, best_leaf_states,
                   next_thread_id, num_threads_finished, mutex, workers, result, null_deref>>

(***************************************************************************)
(* The end of SolveOneIteration and Solve's use of what it returns.        *)
(***************************************************************************)
\* The best leaf the result selection ends with (NULL when every slot is empty).
BestLeaf == SelectBestLeaf(best_leaf_states, 1, INT_MIN, NULL)

\* "Print results" up to return winning_state, when nothing null is read.
IterationResults ==
    /\ pc = "results"
    /\ winning_state # NULL \/ BestLeaf # NULL
    /\ winning_state' = IF winning_state # NULL THEN winning_state ELSE BestLeaf
    /\ current_state' = winning_state'
    /\ pc' = "returned"
    /\ UNCHANGED <<game_vars, options, initial_state, iter_root, iteration, stack,
                   seen_states, total_num_moves, total_cache_hits, total_cache_size,
                   leaf_state_count, parallelism_roots, best_leaf_states, next_thread_id,
                   num_threads_finished, mutex, workers, result, null_deref>>

\* best_leaf_state->PrintGrid() with best_leaf_state null: no worker recorded a leaf.
ResultsNullDeref ==
    /\ pc = "results"
    /\ winning_state = NULL
    /\ BestLeaf = NULL
    /\ null_deref' = TRUE
    /\ \E outcome \in NullOutcomes :
          pc' = IF outcome = "crashed" THEN "crashed" ELSE "returned"
    /\ current_state' = NULL
    /\ UNCHANGED <<game_vars, options, initial_state, iter_root, iteration, stack,
                   seen_states, total_num_moves, total_cache_hits, total_cache_size,
                   leaf_state_count, winning_state, parallelism_roots, best_leaf_states,
                   next_thread_id, num_threads_finished, mutex, workers, result>>

\* The loop's body without the break: a win or not, on to ++i and the loop's test.
SolveCheckWonWithoutBreak ==
    /\ pc = "returned"
    /\ current_state # NULL
    /\ iteration' = iteration + 1
    /\ pc' = "iter_check"
    /\ UNCHANGED <<game_vars, options, initial_state, current_state, iter_root, stack,
                   seen_states, total_num_moves, total_cache_hits, total_cache_size,
                   leaf_state_count, winning_state, parallelism_roots, best_leaf_states,
                   next_thread_id, num_threads_finished, mutex, workers, result, null_deref>>

\* if (current_state->HaveWon()) break; else ++i.
SolveCheckWon ==
    /\ pc = "returned"
    /\ current_state # NULL
    /\ IF HaveWon(current_state)
       THEN /\ result' = current_state
            /\ pc' = "done"
            /\ UNCHANGED iteration
       ELSE /\ iteration' = iteration + 1
            /\ pc' = "iter_check"
            /\ UNCHANGED result
    /\ UNCHANGED <<game_vars, options, initial_state, current_state, iter_root, stack,
                   seen_states, total_num_moves, total_cache_hits, total_cache_size,
                   leaf_state_count, winning_state, parallelism_roots, best_leaf_states,
                   next_thread_id, num_threads_finished, mutex, workers, null_deref>>

\* current_state->HaveWon() through a null current_state: the process ends, or the
\* read yields some bool.
SolveCheckWonNullDeref ==
    /\ pc = "returned"
    /\ current_state = NULL
    /\ null_deref' = TRUE
    /\ \E outcome \in NullOutcomes, read \in BOOLEAN :
          /\ pc' = IF outcome = "crashed" THEN "crashed"
                   ELSE IF read THEN "done" ELSE "iter_check"
          /\ iteration' = IF outcome = "survived" /\ ~read THEN iteration + 1 ELSE iteration
    /\ result' = NULL
    /\ UNCHANGED <<game_vars, options, initial_state, current_state, iter_root, stack,
                   seen_states, total_num_moves, total_cache_hits, total_cache_size,
                   leaf_state_count, winning_state, parallelism_roots, best_leaf_states,
                   next_thread_id, num_threads_finished, mutex, workers>>

\* A level a Level Supplier can build with the same constructor: the platforms, the
\* rule text in a line on the upper right platform, a rock and the key in a row that
\* ends at a wall, three rocks in a row that ends at the grid's edge.
ScenarioGrid ==
    GridOf(PlatformTiles
           \cup {<<DOOR_I, DOOR_J, DOOR>>,
                 <<3, 10, ROCK_TEXT>>, <<3, 11, IS_TEXT>>, <<3, 12, PUSH_TEXT>>,
                 <<5, 11, ROCK>>, <<5, 12, KEY>>, <<5, 15, IMMOVABLE>>,
                 <<7, 15, ROCK>>, <<7, 16, ROCK>>, <<7, 17, ROCK>>})

\* The platforms with the rule text in a column, ROCK above IS above PUSH.
VerticalRuleGrid ==
    GridOf(PlatformTiles
           \cup {<<DOOR_I, DOOR_J, DOOR>>, <<12, 3, KEY>>, <<6, 13, ROCK>>,
                 <<4, 11, ROCK_TEXT>>, <<5, 11, IS_TEXT>>, <<6, 11, PUSH_TEXT>>})

\* The platforms with the rule text in a row read backwards: PUSH, IS, ROCK.
ReversedRuleGrid ==
    GridOf(PlatformTiles
           \cup {<<DOOR_I, DOOR_J, DOOR>>, <<12, 3, KEY>>, <<6, 13, ROCK>>,
                 <<3, 10, PUSH_TEXT>>, <<3, 11, IS_TEXT>>, <<3, 12, ROCK_TEXT>>})

\* The platforms with IS_TEXT one cell above the gap between ROCK_TEXT and
\* PUSH_TEXT: the rule is one push down away.
OpenRuleGrid ==
    GridOf(PlatformTiles
           \cup {<<DOOR_I, DOOR_J, DOOR>>, <<11, 12, KEY>>, <<6, 5, ROCK>>, <<4, 3, ROCK>>,
                 <<5, 11, ROCK_TEXT>>, <<4, 12, IS_TEXT>>, <<5, 13, PUSH_TEXT>>})

\* The platforms with ROCK IS PUSH in row 4 and two keys: one left of the door,
\* one in the grid's upper right corner.
TwoKeyGrid ==
    GridOf(PlatformTiles
           \cup {<<DOOR_I, DOOR_J, DOOR>>, <<12, 3, KEY>>, <<0, 17, KEY>>, <<6, 5, ROCK>>,
                 <<4, 11, ROCK_TEXT>>, <<4, 12, IS_TEXT>>, <<4, 13, PUSH_TEXT>>})

\* The platforms with IS_TEXT alone, so that the rule is off: the key and a rock in
\* a row that ends at a wall, and a rock above a wall.
RuleOffGrid ==
    GridOf(PlatformTiles
           \cup {<<DOOR_I, DOOR_J, DOOR>>, <<4, 12, IS_TEXT>>,
                 <<5, 4, KEY>>, <<5, 5, ROCK>>, <<5, 6, IMMOVABLE>>,
                 <<6, 3, ROCK>>, <<7, 3, IMMOVABLE>>})

FloatiestGrid == FloatiestPlatformsLevel.grid

TestGrid == TestLevel.grid

\* A level around the door: the platforms, two more tiles left of the door's row,
\* ROCK IS PUSH in row 4, and the objects given.
DoorScene(objects, baba1, baba2) ==
    GameStateCtor(
        GridOf(PlatformTiles
               \cup {<<12, 0, TILE>>, <<12, 1, TILE>>, <<DOOR_I, DOOR_J, DOOR>>,
                     <<4, 11, ROCK_TEXT>>, <<4, 12, IS_TEXT>>, <<4, 13, PUSH_TEXT>>}
               \cup objects),
        baba1, baba2)

\* Baba 1 left of a rock that lies before the key and the door; Baba 1 right of a
\* cell with the key and a rock in it, Baba 2 below IS_TEXT; a rock above the door
\* and the key below it, a Baba behind each; Baba 1 standing on the key before the
\* door, with Baba 2 away from it or right behind it.
DoorLevels ==
    {DoorScene({<<12, 2, ROCK>>, <<12, 3, KEY>>}, Coordinate(12, 1), Coordinate(14, 4)),
     DoorScene({<<12, 5, ROCK>>, <<12, 5, KEY>>}, Coordinate(12, 6), Coordinate(5, 12)),
     DoorScene({<<11, 4, ROCK>>, <<13, 4, KEY>>}, Coordinate(10, 4), Coordinate(14, 4)),
     DoorScene({<<12, 3, KEY>>}, Coordinate(12, 3), Coordinate(5, 12)),
     DoorScene({<<12, 3, KEY>>}, Coordinate(12, 3), Coordinate(12, 2))}

(***************************************************************************)
(* GameSpec: ApplyMove applied, move after move, to a constructed level.   *)
(***************************************************************************)
\* The longest move sequence GameSpec applies.
MaxGameTurns == 3

\* The levels GameSpec starts from: the two supplied levels, their grids and the
\* scenario grid with the Babas placed elsewhere, the two other rule layouts, and
\* The Floatiest Platforms with Baba 1 left of the rock of row 6 and Baba 2 out of
\* its way, or standing on that rock, the levels around the door, a level with
\* the rule one push away, a level with two keys, The Floatiest Platforms with
\* both Babas on the cell left of the rock of row 6, two levels where Baba 1
\* stands behind IS_TEXT and Baba 2 behind a rock in the same direction, a level
\* with the rule off where Baba 1 stands behind the key and above a rock, and a
\* level where Baba 2 stands below IS_TEXT, one push from the grid's upper edge
\* and from the gap between ROCK_TEXT and PUSH_TEXT there.
GameLevels ==
    {FloatiestPlatformsLevel, TestLevel}
    \cup {GameStateCtor(FloatiestGrid, Coordinate(13, 4), Coordinate(14, 4)),
          GameStateCtor(FloatiestGrid, Coordinate(4, 2), Coordinate(4, 10)),
          GameStateCtor(TestGrid, Coordinate(12, 2), Coordinate(5, 14)),
          GameStateCtor(ScenarioGrid, Coordinate(12, 2), Coordinate(5, 10)),
          GameStateCtor(ScenarioGrid, Coordinate(11, 3), Coordinate(4, 11)),
          GameStateCtor(ScenarioGrid, Coordinate(13, 4), Coordinate(7, 14)),
          GameStateCtor(VerticalRuleGrid, Coordinate(12, 2), Coordinate(5, 10)),
          GameStateCtor(ReversedRuleGrid, Coordinate(12, 2), Coordinate(5, 10)),
          GameStateCtor(FloatiestGrid, Coordinate(6, 4), Coordinate(5, 10)),
          GameStateCtor(FloatiestGrid, Coordinate(6, 4), Coordinate(6, 5))}
    \cup DoorLevels
    \cup {GameStateCtor(OpenRuleGrid, Coordinate(5, 4), Coordinate(3, 12)),
          GameStateCtor(TwoKeyGrid, Coordinate(12, 2), Coordinate(5, 12)),
          GameStateCtor(FloatiestGrid, Coordinate(6, 4), Coordinate(6, 4)),
          GameStateCtor(FloatiestGrid, Coordinate(5, 12), Coordinate(5, 3)),
          GameStateCtor(OpenRuleGrid, Coordinate(3, 12), Coordinate(5, 5)),
          GameStateCtor(RuleOffGrid, Coordinate(5, 3), Coordinate(5, 12)),
          GameStateCtor(GridOf(PlatformTiles \cup Rect(0, 2, 12, 12, TILE)
                               \cup {<<DOOR_I, DOOR_J, DOOR>>, <<12, 3, KEY>>,
                                     <<0, 11, ROCK_TEXT>>, <<1, 12, IS_TEXT>>,
                                     <<0, 13, PUSH_TEXT>>}),
                        Coordinate(5, 4), Coordinate(2, 12))}

\* Solve has not been called.
SolveIdle ==
    /\ pc = "idle"
    /\ options = [iteration_count |-> 0, max_turn_depth |-> 0, parallelism_depth |-> 0,
                  max_cache_depth |-> 0, print_every_n_moves |-> 1]
    /\ initial_state = NULL
    /\ current_state = NULL
    /\ iter_root = NULL
    /\ iteration = 0
    /\ stack = <<>>
    /\ seen_states = {}
    /\ total_num_moves = 0
    /\ total_cache_hits = 0
    /\ total_cache_size = 0
    /\ leaf_state_count = 0
    /\ winning_state = NULL
    /\ parallelism_roots = <<>>
    /\ best_leaf_states = <<>>
    /\ next_thread_id = 0
    /\ num_threads_finished = 0
    /\ mutex = 0
    /\ workers = <<>>
    /\ result = NULL
    /\ null_deref = FALSE

GameInit ==
    /\ new_state \in GameLevels
    /\ state = new_state
    /\ dir_to_apply = NO_DIRECTION
    /\ layout = NULL
    /\ SolveIdle

\* new_state = cur.state->ApplyMove(cur.dir_to_apply), on the state last returned.
ApplyMoveStep(direction) ==
    /\ new_state.turn < MaxGameTurns
    /\ state' = ReceiverAfterApplyMove(new_state, direction)
    /\ dir_to_apply' = direction
    /\ new_state' = ApplyMove(new_state, direction)
    /\ UNCHANGED <<layout, solve_vars>>

GameNext == \E direction \in Directions : ApplyMoveStep(direction)

GameSpec == GameInit /\ [][GameNext]_vars

(***************************************************************************)
(* Spec: Solve called with a level and options.                            *)
(***************************************************************************)
SolverOptions(ic, mtd, pd, mcd, pe) ==
    [iteration_count |-> ic, max_turn_depth |-> mtd, parallelism_depth |-> pd,
     max_cache_depth |-> mcd, print_every_n_moves |-> pe]

\* A level of narrow platforms: the given tiles, the door, the key, and IS_TEXT where
\* TestLevel has it.
NarrowLevel(tiles, key, baba1, baba2) ==
    GameStateCtor(
        GridOf({<<c[1], c[2], TILE>> : c \in tiles}
               \cup {<<DOOR_I, DOOR_J, DOOR>>, <<key[1], key[2], KEY>>, <<4, 12, IS_TEXT>>}),
        Coordinate(baba1[1], baba1[2]), Coordinate(baba2[1], baba2[2]))

UpperCorridor == {<<5, j>> : j \in 10 .. 14}

\* Baba 1 two steps left of the key, which lies before the door.
TwoStepLevel ==
    NarrowLevel({<<12, 1>>, <<12, 2>>, <<12, 3>>} \cup UpperCorridor,
                <<12, 3>>, <<12, 1>>, <<5, 10>>)

\* The same, with Baba 2 at the end of its platform: its first step right is its last.
TwoStepEdgeLevel ==
    NarrowLevel({<<12, 1>>, <<12, 2>>, <<12, 3>>} \cup UpperCorridor,
                <<12, 3>>, <<12, 1>>, <<5, 14>>)

\* Baba 1 three steps left of the key.
ThreeStepLevel ==
    NarrowLevel({<<12, 0>>, <<12, 1>>, <<12, 2>>, <<12, 3>>} \cup UpperCorridor,
                <<12, 3>>, <<12, 0>>, <<5, 10>>)

\* ThreeStepLevel with Baba 2 one step from the end of its platform.
ThreeStepEdgeLevel ==
    NarrowLevel({<<12, 0>>, <<12, 1>>, <<12, 2>>, <<12, 3>>} \cup UpperCorridor,
                <<12, 3>>, <<12, 0>>, <<5, 13>>)

\* The Babas on either side of the door, the key out of reach.
DoorLevel ==
    NarrowLevel({<<12, 2>>, <<12, 3>>, <<12, 5>>, <<12, 6>>},
                <<11, 12>>, <<12, 3>>, <<12, 5>>)

\* Each Baba alone on one tile.
IslandLevel ==
    NarrowLevel({<<13, 2>>, <<5, 12>>}, <<11, 12>>, <<13, 2>>, <<5, 12>>)

\* TestLevel's platforms with Baba 1 one row above the key's row.
WideLevel ==
    GameStateCtor(TestGrid, Coordinate(11, 2), Coordinate(5, 12))

\* TestLevel's platforms with the key in the row above the door and Baba 1 next
\* to it: a step right pushes the key away from the door.
FarKeyLevel ==
    GameStateCtor(
        GridOf(PlatformTiles
               \cup {<<DOOR_I, DOOR_J, DOOR>>, <<11, 5, KEY>>, <<4, 12, IS_TEXT>>}),
        Coordinate(11, 4), Coordinate(5, 12))

\* ThreeStepLevel with ROCK IS PUSH standing in the row above Baba 2's corridor.
RuleStepLevel ==
    GameStateCtor(
        GridOf({<<c[1], c[2], TILE>> : c \in {<<12, 0>>, <<12, 1>>, <<12, 2>>, <<12, 3>>}
                                             \cup UpperCorridor}
               \cup {<<DOOR_I, DOOR_J, DOOR>>, <<12, 3, KEY>>,
                     <<4, 11, ROCK_TEXT>>, <<4, 12, IS_TEXT>>, <<4, 13, PUSH_TEXT>>}),
        Coordinate(12, 0), Coordinate(5, 10))

\* What Solve is called with: [level, options].
\* The calls whose parallel phase has at most two fork roots, or none.
FewRootsInputs ==
    {[level |-> TestLevel, options |-> SolverOptions(1, 2, 2, 2, 10000000)],
     [level |-> TestLevel, options |-> SolverOptions(1, 1, 2, 20, 10000000)],
     [level |-> TestLevel, options |-> SolverOptions(4, 31, 2, 20, 10000000)],
     [level |-> ApplyMove(TestLevel, DOWN), options |-> SolverOptions(4, 31, 2, 20, 10000000)],
     [level |-> TwoStepLevel, options |-> SolverOptions(1, 2, 0, 2, 10000000)],
     [level |-> TwoStepLevel, options |-> SolverOptions(1, 1, 1, 0, 2)],
     [level |-> TwoStepEdgeLevel, options |-> SolverOptions(1, 2, 0, 2, 10000000)],
     [level |-> ThreeStepLevel, options |-> SolverOptions(2, 1, 0, 2, 10000000)],
     [level |-> RuleStepLevel, options |-> SolverOptions(3, 1, 0, 2, 10000000)],
     [level |-> ThreeStepLevel, options |-> SolverOptions(1, 3, 1, 3, 10000000)],
     [level |-> ThreeStepEdgeLevel, options |-> SolverOptions(1, 3, 1, 0, 10000000)],
     [level |-> DoorLevel, options |-> SolverOptions(1, 3, 2, 3, 10000000)],
     [level |-> DoorLevel, options |-> SolverOptions(1, 3, 2, 1, 10000000)],
     [level |-> IslandLevel, options |-> SolverOptions(2, 2, 2, 2, 10000000)]}

SolveInputs ==
    FewRootsInputs
    \cup {[level |-> ApplyMove(TestLevel, DOWN), options |-> SolverOptions(1, 2, 0, 2, 10000000)],
          [level |-> WideLevel, options |-> SolverOptions(1, 2, 1, 2, 3)],
          [level |-> FarKeyLevel, options |-> SolverOptions(1, 2, 1, 2, 10000000)]}

\* Neither ApplyMove nor any part of Solve has run.
NothingRun ==
    /\ current_state = NULL
    /\ iter_root = NULL
    /\ iteration = 0
    /\ stack = <<>>
    /\ seen_states = {}
    /\ total_num_moves = 0
    /\ total_cache_hits = 0
    /\ total_cache_size = 0
    /\ leaf_state_count = 0
    /\ winning_state = NULL
    /\ parallelism_roots = <<>>
    /\ best_leaf_states = <<>>
    /\ next_thread_id = 0
    /\ num_threads_finished = 0
    /\ mutex = 0
    /\ workers = <<>>
    /\ result = NULL
    /\ null_deref = FALSE
    /\ state = NULL
    /\ dir_to_apply = NO_DIRECTION
    /\ new_state = NULL

\* Solve is called with one of the inputs; nothing has run yet.
SolveCalled(inputs) ==
    /\ \E input \in inputs :
          /\ initial_state = input.level
          /\ options = input.options
    /\ pc = "start"
    /\ layout = NULL
    /\ NothingRun

Init == SolveCalled(SolveInputs)

Next ==
    \/ SolveStart
    \/ SolveReturn
    \/ IterationStart
    \/ IterationNullDeref
    \/ SequentialStep
    \/ SequentialExit
    \/ AfterLoop
    \/ \E w \in WorkerIds : WorkerLockId(w)
    \/ \E w \in WorkerIds : WorkerTakeId(w)
    \/ \E w \in WorkerIds : WorkerLoop(w)
    \/ \E w \in WorkerIds : WorkerLockPrint(w)
    \/ \E w \in WorkerIds : WorkerPrint(w)
    \/ \E w \in WorkerIds : WorkerLockWin(w)
    \/ \E w \in WorkerIds : WorkerRecordWin(w)
    \/ \E w \in WorkerIds : WorkerLockFinish(w)
    \/ \E w \in WorkerIds : WorkerFinish(w)
    \/ ParallelJoin
    \/ IterationResults
    \/ ResultsNullDeref
    \/ SolveCheckWon
    \/ SolveCheckWonNullDeref

Spec == Init /\ [][Next]_vars

\* The process keeps running: while some thread can take a step, a step is taken.
\* Liveness is checked over the calls of FewRootsInputs.
FairInit == SolveCalled(FewRootsInputs)

FairSpec == FairInit /\ [][Next]_vars /\ WF_vars(Next)

(***************************************************************************)
(* MainSpec: main builds the level from a layout and calls Solve with it.  *)
(***************************************************************************)
Layout(grid, baba1, baba2) == [grid |-> grid, baba1 |-> baba1, baba2 |-> baba2]

\* The layout with the grid and the Babas' cells of s.
LayoutOf(s) == Layout(s.grid, s.baba1, s.baba2)

\* The grid with obj taken out of every cell.
WithoutObject(grid, obj) ==
    [i \in Rows |-> [j \in Cols |-> RemoveFromCell(grid[i][j], obj)]]

\* Layouts with something missing: TestLevel's without the key, without IS_TEXT,
\* without the door, with the door one cell to the right, the level The Floatiest
\* Platforms without IS_TEXT, and the empty grid.
FaultyLayouts ==
    {Layout(WithoutObject(TestGrid, KEY), TestLevel.baba1, TestLevel.baba2),
     Layout(WithoutObject(TestGrid, IS_TEXT), TestLevel.baba1, TestLevel.baba2),
     Layout(WithoutObject(TestGrid, DOOR), TestLevel.baba1, TestLevel.baba2),
     Layout([WithoutObject(TestGrid, DOOR) EXCEPT ![DOOR_I][DOOR_J + 1] = AddToCell(@, DOOR)],
            TestLevel.baba1, TestLevel.baba2),
     Layout(WithoutObject(FloatiestGrid, IS_TEXT),
            FloatiestPlatformsLevel.baba1, FloatiestPlatformsLevel.baba2),
     Layout([i \in Rows |-> [j \in Cols |-> 0]], Coordinate(12, 2), Coordinate(5, 12))}

\* What main runs with: the layouts of the levels of FewRootsInputs with their
\* options and, with no iteration to run, The Floatiest Platforms with and without
\* its ROCK_TEXT and PUSH_TEXT and the faulty layouts.
MainInputs ==
    {[layout |-> LayoutOf(input.level), options |-> input.options] : input \in FewRootsInputs}
    \cup {[layout |-> l, options |-> SolverOptions(0, 1, 0, 1, 10000000)] :
              l \in FaultyLayouts
                    \cup {LayoutOf(FloatiestPlatformsLevel),
                          Layout(WithoutObject(WithoutObject(FloatiestGrid, ROCK_TEXT), PUSH_TEXT),
                                 FloatiestPlatformsLevel.baba1, FloatiestPlatformsLevel.baba2)}}

MainInit ==
    /\ \E input \in MainInputs :
          /\ layout = input.layout
          /\ options = input.options
    /\ pc = "main"
    /\ initial_state = NULL
    /\ NothingRun

\* std::make_shared<GameState>(grid, baba1, baba2) in the level's function, and
\* main's call of Solve with what it returns; std::abort() ends the process.
MakeLevel ==
    /\ pc = "main"
    /\ IF ValidGrid(layout.grid)
       THEN /\ initial_state' = GameStateCtor(layout.grid, layout.baba1, layout.baba2)
            /\ pc' = "start"
       ELSE /\ pc' = "aborted"
            /\ UNCHANGED initial_state
    /\ UNCHANGED <<game_vars, options, current_state, iter_root, iteration, stack, seen_states,
                   total_num_moves, total_cache_hits, total_cache_size, leaf_state_count,
                   winning_state, parallelism_roots, best_leaf_states, next_thread_id,
                   num_threads_finished, mutex, workers, result, null_deref>>

MainNext == MakeLevel \/ Next

MainSpec == MainInit /\ [][MainNext]_vars

(***************************************************************************)
(* Properties of ApplyMove, stated on GameSpec: state is the state the move *)
(* was applied to, dir_to_apply the direction, new_state what it returned.  *)
(***************************************************************************)
MoveApplied == dir_to_apply # NO_DIRECTION

\* The cells of s that hold obj.
CellsHolding(s, obj) ==
    {c \in Rows \X Cols : (s.grid[c[1]][c[2]] \div (2 ^ obj)) % 2 = 1}

StaticKinds == {IMMOVABLE, DOOR, TILE}

MovableKinds == {KEY, ROCK_TEXT, IS_TEXT, PUSH_TEXT, ROCK}

InsideGrid(c) == c.i \in Rows /\ c.j \in Cols

HaveWonIffKeyInDoorCell ==
    /\ HaveWon(new_state) <=> (new_state.grid[12][4] \div 32) % 2 = 1
    /\ HaveWon(state) <=> (state.grid[12][4] \div 32) % 2 = 1

\* The key has been pushed into the door by a move that killed a Baba.
WonWithDeadBaba ==
    /\ MoveApplied
    /\ (new_state.grid[12][4] \div 32) % 2 = 1
    /\ HaveWon(new_state)
    /\ ~HaveWon(state)
    /\ new_state.baba1.i = BABA_DEAD \/ new_state.baba2.i = BABA_DEAD

\* Both Babas alive and on one cell once both have moved.
MergedAfterMoving ==
    /\ MoveApplied
    /\ LET moved == MoveBothBabas(state, dir_to_apply)
       IN  /\ moved.baba1.i # BABA_DEAD
           /\ moved.baba2.i # BABA_DEAD
           /\ moved.baba1 = moved.baba2

\* C8: when both Babas are alive and on the same cell after moving, the state
\* ApplyMove returns has both of them alive on that cell, whatever the cell holds.
SameSpaceBabasSurvive ==
    MergedAfterMoving =>
        LET moved == MoveBothBabas(state, dir_to_apply)
        IN  /\ new_state.baba1 = moved.baba1
            /\ new_state.baba2 = moved.baba2
            /\ new_state.baba1.i # BABA_DEAD
            /\ new_state.baba2.i # BABA_DEAD

\* The two Babas stand together on a cell that holds nothing.
MergedOnEmptyCell ==
    /\ MergedAfterMoving
    /\ new_state.baba1.i # BABA_DEAD
    /\ new_state.grid[new_state.baba1.i][new_state.baba1.j] = 0

(***************************************************************************)
(* Properties of Solve, stated on Spec.                                    *)
(***************************************************************************)
Replay(s, ms) ==
    IF ms = <<>> THEN s ELSE Replay(ApplyMove(s, Head(ms)), Tail(ms))

\* Some sequence of at most n moves from s reaches a winning state.
RECURSIVE WinnableWithin(_, _)
WinnableWithin(s, n) ==
    \/ HaveWon(s)
    \/ n > 0 /\ \E direction \in Directions : WinnableWithin(ApplyMove(s, direction), n - 1)

SolveReturnedWin == pc = "done" /\ result # NULL /\ HaveWon(result)

\* C1: with accepted options, when some sequence of at most max_turn_depth moves
\* from the initial state reaches a winning state, Solve returns a non-null state
\* for which HaveWon is true. (Stated for the runs that read through no null
\* pointer, which C3 is about.)
SolveFindsSolutionWithinDepth ==
    (/\ pc = "done"
     /\ ~null_deref
     /\ options.max_turn_depth <= MAX_TURN_COUNT
     /\ options.iteration_count >= 1
     /\ WinnableWithin(initial_state, options.max_turn_depth))
        => SolveReturnedWin

\* C2 as written: the history of the winning state Solve returns, applied to the
\* state Solve was given, yields a winning state.
HistoryReplaysFromSuppliedState ==
    SolveReturnedWin =>
        /\ Len(result.moves) = result.turn
        /\ HaveWon(Replay(initial_state, result.moves))

\* C2: the history of the winning state Solve returns, applied to the root of the
\* iteration that found the win (the state Solve was given in the first iteration,
\* the best leaf of the iteration before in a later one), yields that very state.
HistoryReplaysFromIterationRoot ==
    (SolveReturnedWin /\ iter_root # NULL) =>
        /\ Len(result.moves) = result.turn
        /\ HaveWon(Replay(iter_root, result.moves))
        /\ Replay(iter_root, result.moves) = result

\* Solve has returned a win that an iteration after the first found.
WinFoundInLaterIteration ==
    /\ SolveReturnedWin
    /\ iteration >= 1
    /\ iter_root # NULL
    /\ result.turn >= 1
    /\ ~GameStateEqual(iter_root, initial_state)

\* C3: the end of an iteration without a winning state and without a recorded leaf
\* reads through no null pointer and does not bring the process down.
ExhaustionReadsNoNullState == ~null_deref /\ pc # "crashed"

\* C4: with max_turn_depth above MAX_TURN_COUNT the only step of Solve is the one
\* that returns null: no move is applied, no iteration starts, and the state Solve
\* was given stays as it was.
RejectedOptionsEndSolveAtOnce ==
    [][options.max_turn_depth > MAX_TURN_COUNT =>
          /\ pc = "start"
          /\ pc' = "done"
          /\ result' = NULL
          /\ initial_state' = initial_state
          /\ new_state' = NULL
          /\ total_num_moves' = 0
          /\ iteration' = 0
          /\ stack' = <<>>
          /\ seen_states' = {}
          /\ parallelism_roots' = <<>>
          /\ workers' = <<>>
          /\ null_deref' = FALSE]_vars

\* Solve has returned null for a state that came with a history of its own, which
\* it still has.
RejectedWithHistoryKept ==
    /\ pc = "done"
    /\ result = NULL
    /\ options.max_turn_depth > MAX_TURN_COUNT
    /\ initial_state.turn = 1
    /\ initial_state.moves = <<DOWN>>
    /\ new_state = NULL

\* C5: with accepted options every state ApplyMove has returned, in the sequential
\* phase or in a worker, has a turn of at most max_turn_depth.
MaterialisedTurnWithinMaxDepth ==
    options.max_turn_depth <= MAX_TURN_COUNT =>
        /\ new_state # NULL => new_state.turn <= options.max_turn_depth
        /\ \A w \in WorkerIds :
              workers[w].new_state # NULL =>
                  workers[w].new_state.turn <= options.max_turn_depth

\* The entries of a memo table whose key has the grid and the Babas of c.
EqualEntries(seen, c) ==
    {e \in seen : e.key.grid = c.grid /\ e.key.baba1 = c.baba1 /\ e.key.baba2 = c.baba2}

\* What C10 asks of one loop round that computed child c: seen and hits are the
\* table and the hit counter before the round, seen2 and hits2 after it; dropped
\* says the round ended without expanding c, kept that c was taken further (or
\* that the possible-to-win test, not the memo, dropped it).
MemoContract(seen, seen2, c, hits, hits2, dropped, kept) ==
    \A e \in EqualEntries(seen, c) :
        IF c.turn >= e.turn
        THEN hits2 = hits + 1 /\ seen2 = seen /\ dropped
        ELSE /\ hits2 = hits
             /\ \E e2 \in EqualEntries(seen2, c) : e2.turn = c.turn
             /\ Cardinality(EqualEntries(seen2, c)) = 1
             /\ kept

\* A round of the sequential loop, as a step: the child is new_state'.
SequentialMemoContract ==
    MemoContract(seen_states, seen_states', new_state', total_cache_hits, total_cache_hits',
                 stack' = Pop(stack) /\ parallelism_roots' = parallelism_roots,
                 \/ ~CheckIfPossibleToWin(new_state')
                 \/ parallelism_roots' = Append(parallelism_roots, new_state')
                 \/ stack' = PushNextMoves(Pop(stack), new_state'))

\* A round of worker w's loop, as a step: the child is the worker's new_state'.
WorkerMemoContract(w) ==
    LET wr == workers[w]
        wr2 == workers'[w]
    IN  MemoContract(wr.local_seen_states, wr2.local_seen_states, wr2.new_state,
                     wr.num_cache_hits, wr2.num_cache_hits,
                     /\ wr2.stack = Pop(wr.stack)
                     /\ wr2.leaf_count = wr.leaf_count
                     /\ wr2.best_leaf_state = wr.best_leaf_state,
                     \/ ~CheckIfPossibleToWin(wr2.new_state)
                     \/ wr2.leaf_count = wr.leaf_count + 1
                     \/ wr2.stack = PushNextMoves(Pop(wr.stack), wr2.new_state))

\* The step is a round of the sequential loop.
IsSequentialRound == pc = "sequential" /\ stack # <<>>

\* The step is a round of worker w's loop.
IsWorkerRound(w) ==
    /\ pc = "parallel"
    /\ workers[w].pc \in {"loop", "cs_print"}
    /\ workers[w].stack # <<>>
    /\ workers'[w].stack # workers[w].stack

\* The child reaches the memo check: it is no winning state and its turn is at
\* most max_cache_depth.
ReachesMemoCheck(c) == ~HaveWon(c) /\ c.turn <= options.max_cache_depth

\* C10 as written: a child equal to an entry of the table of its search is a cache
\* hit and is not expanded when its turn is at least the recorded one; it lowers
\* the recorded turn and is not dropped by the memo check when its turn is less.
MemoHitsWhateverTheDepth ==
    [][/\ IsSequentialRound => SequentialMemoContract
       /\ \A w \in WorkerIds : IsWorkerRound(w) => WorkerMemoContract(w)]_vars

\* C10: the same, for the children that reach the memo check.
MemoHitsUpToCacheDepth ==
    [][/\ (IsSequentialRound /\ ReachesMemoCheck(new_state')) => SequentialMemoContract
       /\ \A w \in WorkerIds :
             (IsWorkerRound(w) /\ ReachesMemoCheck(workers'[w].new_state))
                 => WorkerMemoContract(w)]_vars

\* The sequential table has had a recorded turn lowered and has given a hit, and a
\* worker's table has given a hit.
MemoHitAndLowering ==
    /\ \E e \in seen_states : e.turn < e.key.turn
    /\ total_cache_hits > 0
    /\ \E w \in WorkerIds : workers[w].num_cache_hits > 0

HoldsAt(s, i, j, obj) == <<i, j>> \in CellsHolding(s, obj)

\* ROCK_TEXT, IS_TEXT and PUSH_TEXT lie in that order in three cells in a row, read
\* left to right, or in a column, read top to bottom.
RuleTextInReadingOrder(s) ==
    \E c \in CellsHolding(s, IS_TEXT) :
        \/ HoldsAt(s, c[1] - 1, c[2], ROCK_TEXT) /\ HoldsAt(s, c[1] + 1, c[2], PUSH_TEXT)
        \/ HoldsAt(s, c[1], c[2] - 1, ROCK_TEXT) /\ HoldsAt(s, c[1], c[2] + 1, PUSH_TEXT)

\* The three tokens lie in three cells next to one another in a row or a column, in
\* whatever order.
RuleTextInLine(s) ==
    \E c \in Rows \X Cols, step \in {<<0, 1>>, <<1, 0>>} :
        \E order \in {<<ROCK_TEXT, IS_TEXT, PUSH_TEXT>>, <<PUSH_TEXT, IS_TEXT, ROCK_TEXT>>,
                      <<ROCK_TEXT, PUSH_TEXT, IS_TEXT>>, <<IS_TEXT, PUSH_TEXT, ROCK_TEXT>>,
                      <<IS_TEXT, ROCK_TEXT, PUSH_TEXT>>, <<PUSH_TEXT, ROCK_TEXT, IS_TEXT>>} :
            \A k \in 1 .. 3 :
                HoldsAt(s, c[1] + (k - 1) * step[1], c[2] + (k - 1) * step[2], order[k])

ReachedFromSuppliedLevel ==
    \E level \in {FloatiestPlatformsLevel, TestLevel} :
        Replay(level, new_state.moves) = new_state

\* The moves a win is looked for within, from a state CheckIfPossibleToWin rejects.
WinSearchDepth == 3

\* C13: from a state reached from a supplied level for which CheckIfPossibleToWin
\* returns false, no sequence of moves (here: of up to WinSearchDepth moves) reaches
\* a state where HaveWon is true.
PrunedStatesCannotWin ==
    (ReachedFromSuppliedLevel /\ ~CheckIfPossibleToWin(new_state))
        => ~WinnableWithin(new_state, WinSearchDepth)

\* The step is a round of worker w's loop that counted its child as a leaf.
IsLeafRound(w) == IsWorkerRound(w) /\ workers'[w].leaf_count = workers[w].leaf_count + 1

\* The step is the end of an iteration that found no win and returns a state.
IsReturnOfBestLeaf ==
    pc = "results" /\ pc' = "returned" /\ winning_state = NULL /\ current_state' # NULL

\* C14: an iteration that ends without a win returns a leaf that scores at least
\* as much as every leaf a worker recorded. Step by step: a worker's best score
\* never falls, is at least the score of each leaf the worker counts, and, while
\* the worker is in its loop, is the score of the leaf the worker keeps; the
\* completion block hands the leaf kept over;
\* and the state returned is one of the leaves handed over, scoring at least every
\* worker's best score.
BestLeafScoresHighest ==
    [][/\ pc = "parallel" =>
             \A w \in WorkerIds :
                 /\ workers'[w].best_score >= workers[w].best_score
                 /\ IsLeafRound(w) =>
                        workers'[w].best_score >= CalculateScore(workers'[w].new_state)
                 /\ (workers'[w].leaf_count > 0 /\ workers'[w].pc \in {"loop", "lock_print"}) =>
                        /\ workers'[w].best_leaf_state # NULL
                        /\ CalculateScore(workers'[w].best_leaf_state) = workers'[w].best_score
                 /\ (workers[w].pc = "cs_finish" /\ workers'[w].pc = "done") =>
                        \E k \in 1 .. Len(best_leaf_states) :
                            /\ best_leaf_states'[k] = workers[w].best_leaf_state
                            /\ best_leaf_states[k] = NULL
       /\ IsReturnOfBestLeaf =>
             /\ \E k \in 1 .. Len(best_leaf_states) : best_leaf_states[k] = current_state'
             /\ \E w \in WorkerIds : workers[w].best_leaf_state = current_state'
             /\ IsLeaf(current_state', options)
             /\ \A w \in WorkerIds :
                    workers[w].leaf_count > 0 =>
                        CalculateScore(current_state') >= workers[w].best_score]_vars

\* An iteration without a win has returned a leaf that scores more than the best
\* leaf of some worker that recorded one.
BestLeafBeatAnotherWorkers ==
    /\ pc = "returned"
    /\ current_state # NULL
    /\ ~HaveWon(current_state)
    /\ \E w \in WorkerIds :
          /\ workers[w].leaf_count > 0
          /\ workers[w].best_score < CalculateScore(current_state)

\* C15: every call of Solve comes to its return, and with accepted options and at
\* least one iteration what it returns is a state: the win, or the best leaf.
SolveTerminatesWithState ==
    <>(/\ pc = "done"
       /\ (options.max_turn_depth <= MAX_TURN_COUNT /\ options.iteration_count >= 1)
              => result # NULL)

\* C16: once a winning state is recorded in the parallel phase no worker's stack
\* grows again, and a win of the sequential phase leaves the workers unstarted.
NoWorkAfterRecordedWin ==
    [][/\ (pc = "parallel" /\ winning_state # NULL)
              => \A w \in WorkerIds : Len(workers'[w].stack) <= Len(workers[w].stack)
       /\ (pc = "after_loop" /\ winning_state # NULL) => pc' = "results"]_vars

\* The data the workers aggregate into, shared through the lambda's captures.
SharedAggregation ==
    <<next_thread_id, num_threads_finished, total_num_moves, total_cache_hits,
      total_cache_size, leaf_state_count, best_leaf_states, winning_state>>

\* C17: in the parallel phase a step that changes the shared aggregation data is a
\* step of the worker that holds the mutex, inside one of its critical sections;
\* and a worker applies a move and consults its memo table only with the mutex out
\* of its hands: it does not hold it before the round, unless for the progress
\* line, nor once the round has run.
MutexGuardsSharedData ==
    [][pc = "parallel" =>
          /\ SharedAggregation' # SharedAggregation
                 => /\ mutex \in WorkerIds
                    /\ workers[mutex].pc \in {"cs_id", "cs_win", "cs_finish"}
                    /\ workers'[mutex].pc # workers[mutex].pc
                    /\ \A v \in WorkerIds \ {mutex} : workers'[v] = workers[v]
          /\ \A w \in WorkerIds :
                 IsWorkerRound(w) => /\ mutex' # w
                                    /\ (mutex = w => workers[w].pc = "cs_print")]_vars

\* A worker is in its completion block, the mutex in its hands and another worker's
\* results aggregated already, while a third is in the middle of its search.
SearchingBesideCriticalSection ==
    /\ pc = "parallel"
    /\ num_threads_finished >= 1
    /\ \E v \in WorkerIds, w \in WorkerIds :
          /\ v # w
          /\ mutex = v
          /\ workers[v].pc = "cs_finish"
          /\ workers[w].pc = "loop"
          /\ workers[w].num_moves >= 1
          /\ workers[w].stack # <<>>

\* The worker is at a lock_guard, waiting for the mutex.
WaitsForMutex(wr) == wr.pc \in {"unstarted", "lock_print", "lock_win", "lock_finish"}

\* The worker is inside a lock_guard's scope.
InCriticalSection(wr) == wr.pc \in {"cs_id", "cs_print", "cs_win", "cs_finish"}

\* In the parallel phase the mutex is held by exactly the worker that is inside a
\* critical section: no worker waiting at a lock_guard holds it already.
LockHeldInCriticalSectionOnly ==
    pc = "parallel" =>
        /\ mutex \in {0} \cup WorkerIds
        /\ \A w \in WorkerIds : (mutex = w) <=> InCriticalSection(workers[w])
        /\ \A w \in WorkerIds : WaitsForMutex(workers[w]) => mutex # w

\* The next step of a worker that holds the mutex releases it.
HolderReleasesAtNextStep ==
    (pc = "parallel" /\ mutex # 0 /\ workers'[mutex] # workers[mutex]) => mutex' = 0

\* C18: no worker acquires the mutex while it holds it, a worker that holds it
\* releases it at its next step, and a parallel phase comes to the point where
\* every one of its workers has finished.
LockingIsDeadlockFree ==
    /\ []LockHeldInCriticalSectionOnly
    /\ [][HolderReleasesAtNextStep]_vars
    /\ (pc = "parallel") ~> (\A w \in WorkerIds : workers[w].pc = "done")

\* A worker waits at a lock_guard while another worker holds the mutex.
WorkerWaitsForHeldMutex ==
    /\ pc = "parallel"
    /\ \E v \in WorkerIds, w \in WorkerIds :
          /\ v # w
          /\ mutex = v
          /\ workers[w].pc \in {"lock_print", "lock_win", "lock_finish"}

\* What the worker of fork root k ends with when it searches alone: a function of
\* the root, the memo table of the sequential phase and the options.
SearchAlone(k) == WorkerSearch(StartedWorker(parallelism_roots[k], seen_states), options)

\* Some fork root's search ends in the win branch.
SomeSearchWins == \E k \in 1 .. Len(parallelism_roots) : SearchAlone(k).pc = "lock_win"

\* The searches that counted a leaf.
SearchesWithLeaf == {k \in 1 .. Len(parallelism_roots) : SearchAlone(k).leaf_count > 0}

\* The parallel phase of this iteration has run and std::for_each has returned.
ParallelPhaseOver == pc = "results" /\ Len(workers) > 0

\* C19: when the parallel phase is over, whatever the interleaving of the workers
\* was, a win is recorded exactly when the search of some fork root, run alone,
\* wins; and with no win, a leaf is selected exactly when some search counts a
\* leaf, and its score is the highest best score of those searches.
OutcomeIndependentOfInterleaving ==
    ParallelPhaseOver =>
        /\ Len(workers) = Len(parallelism_roots)
        /\ (winning_state # NULL) <=> SomeSearchWins
        /\ winning_state = NULL =>
               /\ (BestLeaf # NULL) <=> (SearchesWithLeaf # {})
               /\ BestLeaf # NULL =>
                      /\ \A k \in SearchesWithLeaf :
                             CalculateScore(BestLeaf) >= SearchAlone(k).best_score
                      /\ \E k \in SearchesWithLeaf :
                             CalculateScore(BestLeaf) = SearchAlone(k).best_score

\* The parallel phase is over without a win and a leaf is selected, after two
\* workers whose best scores differ took their thread ids in the reverse of the
\* order of their fork roots.
LeafSelectedAfterReorderedWorkers ==
    /\ ParallelPhaseOver
    /\ winning_state = NULL
    /\ BestLeaf # NULL
    /\ \E v \in WorkerIds, w \in WorkerIds :
          /\ v < w
          /\ workers[v].thread_id > workers[w].thread_id
          /\ workers[v].leaf_count > 0
          /\ workers[w].leaf_count > 0
          /\ workers[v].best_score # workers[w].best_score

\* Some cell of the grid holds obj.
HasObject(grid, obj) == \E i \in Rows, j \in Cols : CellContainsGameObject(grid[i][j], obj)

\* The door is in the cell the engine expects it in.
DoorInPlace(grid) == CellContainsGameObject(grid[DOOR_I][DOOR_J], DOOR)

\* A state has been built and handed to Solve.
HandedToSearch == pc \notin {"main", "aborted"}

\* C20 as written: a layout without the door in its cell, without a key or without
\* the rule's subject token, ROCK_TEXT, ends the process in the constructor, and no
\* state built from such a layout is handed to the search.
ConstructionRequiresRuleSubject ==
    /\ [][(/\ pc = "main"
           /\ \/ ~DoorInPlace(layout.grid)
              \/ ~HasObject(layout.grid, KEY)
              \/ ~HasObject(layout.grid, ROCK_TEXT))
              => pc' = "aborted"]_vars
    /\ [](HandedToSearch => /\ DoorInPlace(layout.grid)
                            /\ HasObject(layout.grid, KEY)
                            /\ HasObject(layout.grid, ROCK_TEXT))

\* C20: the constructor ends the process exactly on the layouts without the door
\* in its cell, without a key or without IS_TEXT; every other layout, with or
\* without ROCK_TEXT and PUSH_TEXT, is built and handed to Solve with its grid;
\* and the state the search runs on was built from a layout with all three.
ConstructionRequiresIsText ==
    /\ [][pc = "main" =>
             IF /\ DoorInPlace(layout.grid)
                /\ HasObject(layout.grid, KEY)
                /\ HasObject(layout.grid, IS_TEXT)
             THEN /\ pc' = "start"
                  /\ initial_state' # NULL
                  /\ initial_state'.grid = layout.grid
                  /\ initial_state'.turn = 0
             ELSE /\ pc' = "aborted"
                  /\ initial_state' = NULL]_vars
    /\ [](HandedToSearch => /\ initial_state # NULL
                            /\ DoorInPlace(layout.grid)
                            /\ HasObject(layout.grid, KEY)
                            /\ HasObject(layout.grid, IS_TEXT))
    /\ [](pc = "aborted" => initial_state = NULL /\ current_state = NULL /\ result = NULL)

\* The process has ended in the constructor on a layout that has the door, a key,
\* ROCK_TEXT and PUSH_TEXT, and no IS_TEXT.
AbortedWithoutIsText ==
    /\ pc = "aborted"
    /\ DoorInPlace(layout.grid)
    /\ HasObject(layout.grid, KEY)
    /\ HasObject(layout.grid, ROCK_TEXT)
    /\ HasObject(layout.grid, PUSH_TEXT)
    /\ ~HasObject(layout.grid, IS_TEXT)

\* The step is the start of an iteration: ResetContext and the call of
\* SolveOneIteration.
IterationStarts == pc = "iter_check" /\ pc' = "sequential"

\* The state the iteration before returned, with which Solve goes round its loop.
PreviousResult == winning_state

\* C21: Solve starts an iteration only while fewer than iteration_count have run,
\* its counter going up by one from one iteration to the next; an iteration that
\* returns a winning state is the last, Solve returning that state; and each
\* iteration after the first is rooted at the state the iteration before returned,
\* with turn 0 and an empty history and with that state's grid, Babas' cells,
\* cached key and IS_TEXT cells and rule flag.
OuterLoopRootsAtPreviousResult ==
    /\ [](iteration >= 0 /\ (pc # "start" /\ iteration > 0 => iteration <= options.iteration_count))
    /\ [][/\ iteration' \in {iteration, iteration + 1}
          /\ IterationStarts =>
                /\ iteration < options.iteration_count
                /\ iteration' = iteration
                /\ iter_root'.turn = 0
                /\ iter_root'.moves = <<>>
                /\ \A k \in 1 .. Len(stack') : stack'[k].state = iter_root'
                /\ iteration >= 1 =>
                      /\ PreviousResult # NULL
                      /\ ~HaveWon(PreviousResult)
                      /\ current_state = PreviousResult
                      /\ iter_root'.grid = PreviousResult.grid
                      /\ iter_root'.baba1 = PreviousResult.baba1
                      /\ iter_root'.baba2 = PreviousResult.baba2
                      /\ iter_root'.key = PreviousResult.key
                      /\ iter_root'.is_text = PreviousResult.is_text
                      /\ iter_root'.rock_is_push_active = PreviousResult.rock_is_push_active
          /\ (pc = "sequential" /\ pc' = "iter_check") => FALSE
          /\ (pc = "returned" /\ pc' = "iter_check") => iteration' = iteration + 1
          /\ (pc = "returned" /\ current_state # NULL /\ HaveWon(current_state))
                => pc' = "done" /\ result' = current_state
          /\ pc = "done" => pc' = "done"]_vars

\* A second iteration, not the last the options allow, has started with the rule
\* standing, at a root that has no history and has Baba 1 away from where the
\* level has it.
SecondIterationRootedAtLeaf ==
    /\ pc = "sequential"
    /\ iteration = 1
    /\ options.iteration_count > 2
    /\ total_num_moves = 0
    /\ iter_root = current_state
    /\ iter_root.turn = 0
    /\ iter_root.moves = <<>>
    /\ iter_root.rock_is_push_active
    /\ iter_root.baba1 # initial_state.baba1

(***************************************************************************)
(* Properties of the push rules, stated on GameSpec.                       *)
(***************************************************************************)
BabaNames == {"baba1", "baba2"}

\* The cell n steps from Baba b of s in the direction.
CellAhead(s, b, direction, n) ==
    Coordinate(s[b].i + n * DeltaI(direction), s[b].j + n * DeltaJ(direction))

\* What the cell at coordinate c of s holds.
CellAt(s, c) == s.grid[c.i][c.j]

\* The rule is active in s, Baba b is alive, the cell next to it in the direction
\* holds a rock, and the cell after that is in the grid and holds no movable and
\* no immovable object.
FacesFreeRock(s, b, direction) ==
    /\ s.rock_is_push_active
    /\ s[b].i # BABA_DEAD
    /\ InsideGrid(CellAhead(s, b, direction, 2))
    /\ CellContainsGameObject(CellAt(s, CellAhead(s, b, direction, 1)), ROCK)
    /\ ~CellContainsMovableObject(CellAt(s, CellAhead(s, b, direction, 2)), TRUE)
    /\ ~CellContainsImmovableObject(CellAt(s, CellAhead(s, b, direction, 2)))

\* In t Baba b stands where the rock stood in s, and the rock is one cell further.
TokenTookRocksCell(s, t, b, direction) ==
    /\ t[b] = CellAhead(s, b, direction, 1)
    /\ ~CellContainsGameObject(CellAt(t, CellAhead(s, b, direction, 1)), ROCK)
    /\ CellContainsGameObject(CellAt(t, CellAhead(s, b, direction, 2)), ROCK)

\* C22 as written: when a live Baba faces a rock with a free cell behind it and the
\* rule is active, the state ApplyMove returns has the Baba in the rock's former
\* cell and the rock one cell further.
SinglePushMovesTokenAndRock ==
    MoveApplied =>
        \A b \in BabaNames :
            FacesFreeRock(state, b, dir_to_apply)
                => TokenTookRocksCell(state, new_state, b, dir_to_apply)

\* The state a Baba's MoveBaba call finds: the copy for Baba 1, the copy after Baba
\* 1's move for Baba 2.
StateBeforeMoveOf(s, b, direction) ==
    IF b = "baba1" THEN GameStateCopy(s) ELSE MoveBaba(GameStateCopy(s), "baba1", direction)

\* The state once both Babas have moved, before RecalculateState.
StateAfterBothMoves(s, direction) == MoveBothBabas(GameStateCopy(s), direction)

\* C22: when its turn to move comes, a live Baba that faces a rock with a free cell
\* behind it, the rule being active, takes the rock's cell and leaves the rock one
\* cell further. In the state ApplyMove returns the rock is there and not in its
\* former cell unless the other Baba's move changed the grid afterwards, and the
\* Baba is in the rock's former cell unless that cell is left empty and the Babas do
\* not share a cell: then it is dead.
SinglePushThenRecalculation ==
    MoveApplied =>
        \A b \in BabaNames :
            LET before == StateBeforeMoveOf(state, b, dir_to_apply)
                after == MoveBaba(before, b, dir_to_apply)
                moved == StateAfterBothMoves(state, dir_to_apply)
                rocks_cell == CellAhead(before, b, dir_to_apply, 1)
            IN  FacesFreeRock(before, b, dir_to_apply) =>
                    /\ TokenTookRocksCell(before, after, b, dir_to_apply)
                    /\ after.rock_is_push_active
                    /\ moved[b] = rocks_cell
                    /\ moved.grid = after.grid
                           => /\ new_state.grid = after.grid
                              /\ CellContainsGameObject(
                                     CellAt(new_state, CellAhead(before, b, dir_to_apply, 2)), ROCK)
                    /\ new_state[b] = IF /\ CellIsEmpty(CellAt(moved, rocks_cell))
                                         /\ ~BabasOnSameSpace(moved)
                                      THEN Coordinate(BABA_DEAD, BABA_DEAD)
                                      ELSE rocks_cell

\* A Baba has pushed a rock one cell on and stands, alive, where the rock was.
RockPushedOneCell ==
    /\ MoveApplied
    /\ \E b \in BabaNames :
          /\ FacesFreeRock(state, b, dir_to_apply)
          /\ TokenTookRocksCell(state, new_state, b, dir_to_apply)
          /\ new_state[b].i # BABA_DEAD

\* How far from Baba b the push chain in the direction stops: the first cell ahead
\* that is off the grid, holds a wall or the door, or holds nothing that can be
\* pushed.
ChainStop(s, b, direction) ==
    LET stops == {k \in 1 .. GRID_HEIGHT :
                     LET c == CellAhead(s, b, direction, k)
                     IN  \/ ~InsideGrid(c)
                         \/ CellContainsGameObject(CellAt(s, c), IMMOVABLE)
                         \/ CellContainsGameObject(CellAt(s, c), DOOR)
                         \/ \A obj \in MovableKinds :
                                CellContainsGameObject(CellAt(s, c), obj)
                                    => (obj = ROCK /\ ~s.rock_is_push_active)}
    IN  CHOOSE k \in stops : \A n \in stops : k <= n

\* The objects of MovableKinds in the cell that a push moves.
PushedFrom(s, c) ==
    {obj \in MovableKinds :
        /\ CellContainsGameObject(CellAt(s, c), obj)
        /\ obj = ROCK => s.rock_is_push_active}

\* Baba b's destination holds a wall, or the push chain that starts there ends at
\* a wall, at the grid's edge, or at the door with anything but the key alone in the
\* chain's last cell (a Baba that is next to the door has no such cell).
AttemptBlocked(s, b, direction) ==
    LET n == ChainStop(s, b, direction)
        c == CellAhead(s, b, direction, n)
    IN  \/ ~InsideGrid(c)
        \/ CellContainsGameObject(CellAt(s, c), IMMOVABLE)
        \/ /\ CellContainsGameObject(CellAt(s, c), DOOR)
           /\ n = 1 \/ PushedFrom(s, CellAhead(s, b, direction, n - 1)) # {KEY}

\* C23: a live Baba's blocked attempt changes nothing: the state its MoveBaba call
\* leaves is the state it found, grid, Babas and cached cells, and once both Babas
\* have moved the Baba is where it was.
FailedAttemptChangesNothing ==
    MoveApplied =>
        \A b \in BabaNames :
            LET before == StateBeforeMoveOf(state, b, dir_to_apply)
                after == MoveBaba(before, b, dir_to_apply)
            IN  (before[b].i # BABA_DEAD /\ AttemptBlocked(before, b, dir_to_apply)) =>
                    /\ after = before
                    /\ after.grid = before.grid
                    /\ after[b] = state[b]
                    /\ StateAfterBothMoves(state, dir_to_apply)[b] = state[b]

\* A Baba has made an attempt on a chain of two cells of objects that ends at a
\* wall, and the move has changed no cell of the grid.
ChainBlockedByWall ==
    /\ MoveApplied
    /\ new_state.grid = state.grid
    /\ \E b \in BabaNames :
          /\ state[b].i # BABA_DEAD
          /\ ChainStop(state, b, dir_to_apply) = 3
          /\ CellContainsGameObject(CellAt(state, CellAhead(state, b, dir_to_apply, 3)),
                                    IMMOVABLE)
          /\ AttemptBlocked(state, b, dir_to_apply)
          /\ new_state[b] = state[b]

DoorCell == Coordinate(DOOR_I, DOOR_J)

\* Baba b's push chain in the direction ends at the door's cell.
ChainEndsAtDoor(s, b, direction) ==
    LET c == CellAhead(s, b, direction, ChainStop(s, b, direction))
    IN  /\ InsideGrid(c)
        /\ CellContainsGameObject(CellAt(s, c), DOOR)
        /\ ~CellContainsGameObject(CellAt(s, c), IMMOVABLE)

\* The cell before the door in Baba b's chain is a cell of the chain, not the
\* Baba's own, and what a push moves from it is the key and nothing else.
KeyAloneBeforeDoor(s, b, direction) ==
    LET n == ChainStop(s, b, direction)
    IN  n >= 2 /\ PushedFrom(s, CellAhead(s, b, direction, n - 1)) = {KEY}

\* C24: a live Baba's attempt on a chain that ends at the door succeeds exactly
\* when the chain's last cell holds the key as its only movable object: then the
\* key is in the door's cell, the Baba has stepped, and the state ApplyMove returns
\* satisfies HaveWon; otherwise the attempt changes nothing. No attempt of another
\* kind changes the door's cell, and no Baba ever comes to stand in it.
DoorAdmitsKeyAlone ==
    MoveApplied =>
        \A b \in BabaNames :
            LET before == StateBeforeMoveOf(state, b, dir_to_apply)
                after == MoveBaba(before, b, dir_to_apply)
            IN  /\ new_state[b] # DoorCell
                /\ before[b].i # BABA_DEAD =>
                       IF ChainEndsAtDoor(before, b, dir_to_apply)
                       THEN IF KeyAloneBeforeDoor(before, b, dir_to_apply)
                            THEN /\ CellContainsGameObject(CellAt(after, DoorCell), KEY)
                                 /\ after.key = DoorCell
                                 /\ ~CellContainsGameObject(
                                        CellAt(after, CellAhead(before, b, dir_to_apply,
                                               ChainStop(before, b, dir_to_apply) - 1)), KEY)
                                 /\ after[b] = CellAhead(before, b, dir_to_apply, 1)
                                 /\ HaveWon(after)
                                 /\ HaveWon(new_state)
                            ELSE after = before
                       ELSE CellAt(after, DoorCell) = CellAt(before, DoorCell)

\* A Baba has pushed a rock that pushed the key into the door: the state won.
KeyPushedThroughChain ==
    /\ MoveApplied
    /\ ~HaveWon(state)
    /\ HaveWon(new_state)
    /\ new_state.key = DoorCell
    /\ \E b \in BabaNames :
          /\ state[b].i # BABA_DEAD
          /\ ChainStop(state, b, dir_to_apply) = 3
          /\ ChainEndsAtDoor(state, b, dir_to_apply)
          /\ KeyAloneBeforeDoor(state, b, dir_to_apply)

\* Baba b of s stands on the key, and the next cell in the direction is the door's.
OnKeyBeforeDoor(s, b, direction) ==
    /\ s[b].i # BABA_DEAD
    /\ CellContainsGameObject(CellAt(s, s[b]), KEY)
    /\ CellAhead(s, b, direction, 1) = DoorCell
    /\ CellContainsGameObject(CellAt(s, DoorCell), DOOR)

\* C25: a live Baba's move leaves the cell it starts from as it was, whatever the
\* cell holds and whether or not the Baba gets away from it, and leaves the cached
\* key cell alone when the key lies there; a Baba that stands on the key with the
\* door next changes nothing at all: the key stays out of the door and the Baba out
\* of the door's cell.
OriginCellUntouched ==
    MoveApplied =>
        \A b \in BabaNames :
            LET before == StateBeforeMoveOf(state, b, dir_to_apply)
                after == MoveBaba(before, b, dir_to_apply)
            IN  before[b].i # BABA_DEAD =>
                    /\ CellAt(after, before[b]) = CellAt(before, before[b])
                    /\ before.key = before[b] => after.key = before.key
                    /\ OnKeyBeforeDoor(before, b, dir_to_apply) =>
                           /\ after = before
                           /\ HaveWon(after) <=> HaveWon(before)
                           /\ after[b] # DoorCell

\* A Baba standing on the key has made its attempt towards the door next to it:
\* the key is where it was, under the Baba, and the state has not won.
StoodOnKeyBeforeDoor ==
    /\ MoveApplied
    /\ OnKeyBeforeDoor(state, "baba1", dir_to_apply)
    /\ new_state.baba1 = state.baba1
    /\ new_state.key = state.key
    /\ new_state.key = new_state.baba1
    /\ ~HaveWon(new_state)

StartedWithRule ==
    \E level \in GameLevels :
        level.rock_is_push_active /\ Replay(level, new_state.moves) = new_state

IsDescendantOf(k, root) ==
    /\ Len(k.moves) > Len(root.moves)
    /\ SubSeq(k.moves, 1, Len(root.moves)) = root.moves

\* The worker has made its copy of seen_states.
HasLocalTable(wr) == wr.pc \notin {"unstarted", "cs_id"}

\* The keys worker w has put into its table itself.
OwnEntries(w) ==
    {e \in workers[w].local_seen_states : \A f \in seen_states : f.key # e.key}

\* C27: in the parallel phase the table of the sequential phase stays as it is; a
\* worker's table starts as a copy of it; a step changes the table of at most the
\* worker that takes it; whether a worker's round is a cache hit is decided by that
\* worker's table as it stood before the round; and every key of a worker's table
\* is a key of the sequential table or a state of the worker's own subtree.
WorkersSearchPrivateTables ==
    /\ [](pc = "parallel" =>
             \A w \in WorkerIds :
                 HasLocalTable(workers[w]) =>
                     \A e \in OwnEntries(w) : IsDescendantOf(e.key, parallelism_roots[w]))
    /\ [][pc = "parallel" =>
             /\ seen_states' = seen_states
             /\ \A w \in WorkerIds :
                    /\ (~HasLocalTable(workers[w]) /\ HasLocalTable(workers'[w]))
                           => workers'[w].local_seen_states = seen_states
                    /\ workers'[w].local_seen_states # workers[w].local_seen_states
                           => \A v \in WorkerIds \ {w} :
                                  workers'[v].local_seen_states = workers[v].local_seen_states
                    /\ (IsWorkerRound(w) /\ ReachesMemoCheck(workers'[w].new_state))
                           => ((workers'[w].num_cache_hits = workers[w].num_cache_hits + 1)
                               <=> \E e \in workers[w].local_seen_states :
                                      /\ GameStateEqual(e.key, workers'[w].new_state)
                                      /\ workers'[w].new_state.turn >= e.turn)]_vars

\* Two workers have each put the same state into their tables, each by a path of
\* its own: the second to come to it did not find the entry of the first.
SameStateInTwoTables ==
    /\ pc = "parallel"
    /\ \E v \in WorkerIds, w \in WorkerIds :
          /\ v # w
          /\ \E e \in OwnEntries(v), f \in OwnEntries(w) :
                /\ GameStateEqual(e.key, f.key)
                /\ e.key.moves # f.key.moves
                /\ e.turn = f.turn

\* The workers of ws that have left their completion block.
Finished(ws) == {w \in DOMAIN ws : ws[w].pc = "done"}

\* What a worker adds to a global counter from its field: the size of its local
\* table, or the count itself.
Contribution(wr, field) ==
    IF field = "local_seen_states" THEN Cardinality(wr[field]) ELSE wr[field]

\* The sum of the contributions of the workers of ids.
RECURSIVE SumOver(_, _, _)
SumOver(ws, ids, field) ==
    IF ids = {} THEN 0
    ELSE LET w == CHOOSE w \in ids : TRUE
         IN  Contribution(ws[w], field) + SumOver(ws, ids \ {w}, field)

\* What the sequential phase left in a counter: the counter less what the finished
\* workers of ws added to it.
SequentialShare(total, ws, field) == total - SumOver(ws, Finished(ws), field)

RockLayouts ==
    {{<<4, 3, ROCK>>, <<6, 5, ROCK>>, <<6, 11, ROCK>>},
     {<<5, 7, ROCK>>, <<6, 5, ROCK>>, <<6, 11, ROCK>>},
     {<<5, 7, ROCK>>, <<5, 8, ROCK>>, <<6, 11, ROCK>>},
     {<<5, 7, ROCK>>, <<5, 8, ROCK>>, <<6, 9, ROCK>>},
     {<<5, 7, ROCK>>, <<5, 8, ROCK>>, <<5, 9, ROCK>>}}

\* Where the three texts lie: ROCK IS PUSH in row 4; IS_TEXT alone in row 5;
\* ROCK_TEXT and IS_TEXT in row 5; ROCK IS PUSH in row 5; PUSH IS ROCK in row 5;
\* IS_TEXT in row 4 right of the platform.
TextLayouts ==
    {{<<4, 11, ROCK_TEXT>>, <<4, 12, IS_TEXT>>, <<4, 13, PUSH_TEXT>>},
     {<<4, 11, ROCK_TEXT>>, <<5, 12, IS_TEXT>>, <<4, 13, PUSH_TEXT>>},
     {<<5, 11, ROCK_TEXT>>, <<5, 12, IS_TEXT>>, <<4, 13, PUSH_TEXT>>},
     {<<5, 11, ROCK_TEXT>>, <<5, 12, IS_TEXT>>, <<5, 13, PUSH_TEXT>>},
     {<<5, 11, PUSH_TEXT>>, <<5, 12, IS_TEXT>>, <<5, 13, ROCK_TEXT>>},
     {<<4, 11, ROCK_TEXT>>, <<4, 15, IS_TEXT>>, <<4, 13, PUSH_TEXT>>}}

\* The key next to the door, or in the grid's upper right corner.
KeyCells == {Coordinate(12, 3), Coordinate(0, 17)}

\* The Babas on one cell, or on two.
BabaCells == {<<Coordinate(6, 12), Coordinate(6, 12)>>, <<Coordinate(5, 4), Coordinate(7, 14)>>}

\* The states scored: the platforms and the door with the level's three rocks,
\* three texts, key and Babas laid out in these ways.
ScoreLevels ==
    {GameStateCtor(GridOf(PlatformTiles \cup {<<DOOR_I, DOOR_J, DOOR>>}
                          \cup rocks \cup texts \cup {<<key.i, key.j, KEY>>}),
                   babas[1], babas[2]) :
        rocks \in RockLayouts, texts \in TextLayouts, key \in KeyCells, babas \in BabaCells}

ScoreInit ==
    /\ state \in ScoreLevels
    /\ new_state \in ScoreLevels
    /\ dir_to_apply = NO_DIRECTION
    /\ layout = NULL
    /\ SolveIdle

\* score = new_state->CalculateScore(); if (score > best_score) the leaf becomes
\* the best leaf; then the next leaf is scored.
ScoreLeaf ==
    /\ state' = IF CalculateScore(new_state) > CalculateScore(state) THEN new_state ELSE state
    /\ new_state' \in ScoreLevels
    /\ UNCHANGED <<dir_to_apply, layout, solve_vars>>

ScoreNext == ScoreLeaf

ScoreSpec == ScoreInit /\ [][ScoreNext]_vars

\* The tie-break term of CalculateScore.
TieBreak(s) == 100 - (Abs(s.key.i - DOOR_I) + Abs(s.key.j - DOOR_J))

\* The points CalculateScore adds for the three milestones.
MilestonePoints(s) ==
    SumRockPoints(s, 3)
    + (IF RockRow(s) # -1 THEN TextPoints(s, TextAlignedCount(s, RockRow(s))) ELSE 0)
    + (IF BabasOnSameSpace(s) THEN 10000000 ELSE 0)

\* CalculateScore returns -1: a row between the platforms holds three rocks and
\* the texts cannot be aligned with it.
WrittenOff(s) == RockRow(s) # -1 /\ ~CheckIfTextCanBeAlignedWithRocks(s, RockRow(s))

\* The latest milestone s has reached: 3 both Babas on one cell, 2 a text aligned
\* with the row of three rocks, 1 a rock between the upper platforms, 0 none.
LatestMilestone(s) ==
    IF BabasOnSameSpace(s) THEN 3
    ELSE IF RockRow(s) # -1 /\ TextAlignedCount(s, RockRow(s)) >= 1 THEN 2
    ELSE IF SumRockPoints(s, 3) > 0 THEN 1
    ELSE 0

\* The best leaf and the leaf being scored, in both orders.
ScoredPairs == {<<state, new_state>>, <<new_state, state>>}

\* C29 as the specification words it: of two states that pass
\* CheckIfPossibleToWin, the one that has reached the later milestone scores
\* strictly higher, and so does the one with more milestone points whatever the
\* tie-break terms.
MilestonesOrderScores ==
    \A p \in ScoredPairs :
        (CheckIfPossibleToWin(p[1]) /\ CheckIfPossibleToWin(p[2])) =>
            /\ LatestMilestone(p[1]) > LatestMilestone(p[2]) =>
                   CalculateScore(p[1]) > CalculateScore(p[2])
            /\ MilestonePoints(p[1]) > MilestonePoints(p[2]) =>
                   CalculateScore(p[1]) > CalculateScore(p[2])

\* C29: of two states that pass CheckIfPossibleToWin, one that CalculateScore does
\* not write off with -1 scores strictly higher than the other if it has reached
\* a later milestone, and if it has more milestone points whatever the tie-break
\* terms, which lie between 0 and 100; its score is its milestone points plus
\* its tie-break term. A state with three rocks in a row between the platforms
\* and texts that cannot be aligned with them scores -1 whatever it has reached.
MilestonesOrderScoresUnlessWrittenOff ==
    \A p \in ScoredPairs :
        (CheckIfPossibleToWin(p[1]) /\ CheckIfPossibleToWin(p[2])) =>
            /\ WrittenOff(p[1]) => CalculateScore(p[1]) = -1
            /\ ~WrittenOff(p[1]) =>
                  /\ CalculateScore(p[1]) = MilestonePoints(p[1]) + TieBreak(p[1])
                  /\ TieBreak(p[1]) \in 0 .. 100
                  /\ LatestMilestone(p[1]) > LatestMilestone(p[2]) =>
                         CalculateScore(p[1]) > CalculateScore(p[2])
                  /\ MilestonePoints(p[1]) > MilestonePoints(p[2]) =>
                         CalculateScore(p[1]) > CalculateScore(p[2])

\* The best leaf has a text aligned with its three rocks and its key far from the
\* door; the leaf scored against it has the three rocks in the row and no text
\* aligned, its key next to the door, and has not replaced it.
AlignedTextOutweighsNearerKey ==
    /\ CheckIfPossibleToWin(state) /\ CheckIfPossibleToWin(new_state)
    /\ ~WrittenOff(state) /\ ~WrittenOff(new_state)
    /\ LatestMilestone(state) = 2 /\ MilestonePoints(state) = 11000
    /\ LatestMilestone(new_state) = 1 /\ MilestonePoints(new_state) = 10000
    /\ TieBreak(new_state) > TieBreak(state)
    /\ CalculateScore(state) > CalculateScore(new_state)

(***************************************************************************)
(* MemoSpec: the memo check on the states ApplyMove returns one after the  *)
(* other, the table found through GameStateHash and GameStateEqual.        *)
(***************************************************************************)
\* The entries an unordered_map with GameStateHash and GameStateEqual finds for
\* s: those whose key hashes as s does and is equal to s.
MemoFind(seen, s) ==
    {e \in seen : GameStateEqual(e.key, s) /\ GameStateHash(e.key) = GameStateHash(s)}

\* The levels the memo check is run on: The Floatiest Platforms, and the same with
\* Baba 1 left of the rock of row 6.
MemoLevels ==
    {FloatiestPlatformsLevel,
     GameStateCtor(FloatiestGrid, Coordinate(6, 4), Coordinate(5, 10))}

MemoInit ==
    /\ new_state \in MemoLevels
    /\ state = new_state
    /\ dir_to_apply = NO_DIRECTION
    /\ layout = NULL
    /\ pc = "idle"
    /\ options = SolverOptions(1, 3, 3, 3, 10000000)
    /\ initial_state = new_state
    /\ current_state = NULL
    /\ iter_root = NULL
    /\ iteration = 0
    /\ stack = <<>>
    /\ seen_states = {[key |-> new_state, turn |-> 0]}
    /\ total_num_moves = 0
    /\ total_cache_hits = 0
    /\ total_cache_size = 0
    /\ leaf_state_count = 0
    /\ winning_state = NULL
    /\ parallelism_roots = <<>>
    /\ best_leaf_states = <<>>
    /\ next_thread_id = 0
    /\ num_threads_finished = 0
    /\ mutex = 0
    /\ workers = <<>>
    /\ result = NULL
    /\ null_deref = FALSE

\* new_state = cur.state->ApplyMove(cur.dir_to_apply), then the memo check:
\* seen_states.insert({new_state, new_state->_turn}) and, if it did not insert,
\* the cache hit or the lowering of the recorded turn.
MemoCheck(direction) ==
    /\ new_state.turn < options.max_turn_depth
    /\ state' = new_state
    /\ dir_to_apply' = direction
    /\ new_state' = ApplyMove(new_state, direction)
    /\ total_num_moves' = total_num_moves + 1
    /\ LET found == MemoFind(seen_states, new_state')
           e == CHOOSE entry \in found : TRUE
       IN  IF found = {}
           THEN /\ seen_states' = seen_states \cup {[key |-> new_state', turn |-> new_state'.turn]}
                /\ UNCHANGED total_cache_hits
           ELSE IF new_state'.turn >= e.turn
           THEN /\ total_cache_hits' = total_cache_hits + 1
                /\ UNCHANGED seen_states
           ELSE /\ seen_states' = (seen_states \ {e})
                                     \cup {[key |-> e.key, turn |-> new_state'.turn]}
                /\ UNCHANGED total_cache_hits
    /\ UNCHANGED <<layout, pc, options, initial_state, current_state, iter_root, iteration,
                   stack, total_cache_size, leaf_state_count, winning_state,
                   parallelism_roots, best_leaf_states, next_thread_id,
                   num_threads_finished, mutex, workers, result, null_deref>>

MemoNext == \E direction \in Directions : MemoCheck(direction)

MemoSpec == MemoInit /\ [][MemoNext]_vars

\* Both Babas' coordinates and every grid cell of a and b are equal.
SameCoordinatesAndCells(a, b) == a.baba1 = b.baba1 /\ a.baba2 = b.baba2 /\ a.grid = b.grid

\* The entries of the table for another state object than s with the coordinates
\* and cells of s.
TwinsOf(seen, s) == {e \in seen : e.key # s /\ SameCoordinatesAndCells(e.key, s)}

\* C30: the memo check finds an entry for the state ApplyMove returned exactly
\* when the table holds a key with the same coordinates of both Babas and the
\* same grid cells, whatever the two states' move histories, turn counts and
\* cached fields, and it counts a cache hit only for such a key; GameStateEqual
\* holds of two states exactly when these coordinates and cells are equal, two
\* states it holds of have the same GameStateHash, and no two keys of the table
\* are equal under it.
StateIdentityIsCoordinatesAndCells ==
    /\ [][new_state' # new_state =>
             /\ (Cardinality(seen_states') = Cardinality(seen_states))
                    <=> (\E e \in seen_states : SameCoordinatesAndCells(e.key, new_state'))
             /\ total_cache_hits' # total_cache_hits =>
                    \E e \in seen_states : /\ SameCoordinatesAndCells(e.key, new_state')
                                            /\ new_state'.turn >= e.turn]_vars
    /\ [](/\ \A e \in seen_states :
                GameStateEqual(e.key, new_state) <=> SameCoordinatesAndCells(e.key, new_state)
          /\ \A e \in TwinsOf(seen_states, new_state) :
                GameStateHash(e.key) = GameStateHash(new_state)
          /\ \A e1 \in seen_states, e2 \in seen_states :
                GameStateEqual(e1.key, e2.key) => e1 = e2
          /\ \E e \in seen_states : SameCoordinatesAndCells(e.key, new_state))

\* The memo check has counted a cache hit for a state whose key in the table has
\* another move history and another turn count.
HitAcrossHistories ==
    /\ total_cache_hits = 1
    /\ new_state.turn = 3
    /\ MemoFind(seen_states, new_state) = TwinsOf(seen_states, new_state)
    /\ \E e \in TwinsOf(seen_states, new_state) :
          /\ e.key.moves # new_state.moves
          /\ e.key.turn # new_state.turn
          /\ e.turn = 1
          /\ GameStateHash(e.key) = GameStateHash(new_state)

(***************************************************************************)
(* Properties of the fan-out, stated on Spec.                              *)
(***************************************************************************)
\* Some worker has left the state the lambda's locals are in before a thread
\* picks its element up.
SomeWorkerStarted == \E w \in WorkerIds : workers[w].pc # "unstarted"

\* The fork roots collected so far.
ForkRoots == {parallelism_roots[k] : k \in 1 .. Len(parallelism_roots)}

\* The states whose children are on the sequential phase's stack.
ParentsOnStack == {stack[k].state : k \in 1 .. Len(stack)}

\* What C31 says of the fork roots and the workers, but for the stack's parents.
ForkRootsAreCheckedStates ==
    /\ [](/\ SomeWorkerStarted => stack = <<>>
          /\ pc \in {"sequential", "after_loop", "parallel"} =>
                \A root \in ForkRoots :
                    /\ ~HaveWon(root)
                    /\ CheckIfPossibleToWin(root)
                    /\ CacheConsulted(root, options) => HasEntry(seen_states, root)
                    /\ options.parallelism_depth >= 1 =>
                          root.turn = options.parallelism_depth)
    /\ [][Len(parallelism_roots') > Len(parallelism_roots) =>
             /\ pc = "sequential"
             /\ parallelism_roots' = Append(parallelism_roots, new_state')
             /\ ~CacheHit(seen_states, new_state', options)
             /\ stack' = Pop(stack)]_vars

\* C31 as the specification words it: no worker starts before the sequential
\* phase's stack is empty, every fork root is a state that has not won and passed
\* the memo check and CheckIfPossibleToWin, with parallelism_depth >= 1 its turn
\* is parallelism_depth, and the children of a state whose turn is
\* parallelism_depth or more are never on the sequential phase's stack.
FanOutAtParallelismDepth ==
    /\ ForkRootsAreCheckedStates
    /\ [](pc = "sequential" =>
             \A parent \in ParentsOnStack : parent.turn < options.parallelism_depth)

\* C31: no worker starts before the sequential phase's stack is empty; every
\* fork root is a state that has not won and passed the memo check and
\* CheckIfPossibleToWin; with parallelism_depth >= 1 its turn is
\* parallelism_depth and the children of a state of that turn or more are never
\* on the sequential phase's stack; with parallelism_depth <= 0 the only children
\* on the stack are those of the iteration's root, pushed before the loop, and
\* every fork root has turn 1.
FanOutAfterSequentialPhase ==
    /\ ForkRootsAreCheckedStates
    /\ [](pc = "sequential" =>
             /\ options.parallelism_depth >= 1 =>
                   \A parent \in ParentsOnStack : parent.turn < options.parallelism_depth
             /\ options.parallelism_depth <= 0 =>
                   \A parent \in ParentsOnStack : parent = iter_root /\ parent.turn = 0)
    /\ [](pc \in {"sequential", "after_loop", "parallel"} /\ options.parallelism_depth <= 0 =>
             \A root \in ForkRoots : root.turn = 1)

\* A worker has started on fork roots of turn 2, collected after the sequential
\* phase pushed the children of states of turn 1.
WorkerStartedOnRootsOfTurnTwo ==
    /\ pc = "parallel"
    /\ options.parallelism_depth = 2
    /\ SomeWorkerStarted
    /\ stack = <<>>
    /\ ForkRoots # {}
    /\ \A root \in ForkRoots : root.turn = 2 /\ Len(root.moves) = 2

(***************************************************************************)
(* Properties of the cached fields and of the Babas, stated on GameSpec.   *)
(***************************************************************************)
\* The receiver and the result of the last ApplyMove.
StatesOfLastMove == {state, new_state}

\* The coordinate c as a cell of the grid.
CellOfCoordinate(c) == <<c.i, c.j>>

\* C32 as the specification words it: in the state the constructor built and in
\* every state ApplyMove returned, _is_text is the one cell that holds IS_TEXT
\* and _key the one cell that holds KEY.
CachedCoordinatesAreTheOnlyCells ==
    \A s \in StatesOfLastMove :
        /\ CellsHolding(s, IS_TEXT) = {CellOfCoordinate(s.is_text)}
        /\ CellsHolding(s, KEY) = {CellOfCoordinate(s.key)}

\* C32: in the state the constructor built and in every state ApplyMove
\* returned, the cell of _is_text holds IS_TEXT and the cell of _key holds KEY,
\* and no ApplyMove adds to the cells that hold either: in a level laid out with
\* one IS_TEXT and one KEY the cached coordinates are the only cells that hold
\* them, while a level laid out with two keys has two such cells from the
\* constructor on.
CachedCoordinatesHoldTheirObjects ==
    /\ [](\A s \in StatesOfLastMove :
             /\ CellOfCoordinate(s.is_text) \in CellsHolding(s, IS_TEXT)
             /\ CellOfCoordinate(s.key) \in CellsHolding(s, KEY)
             /\ Cardinality(CellsHolding(s, IS_TEXT)) = 1 =>
                   CellsHolding(s, IS_TEXT) = {CellOfCoordinate(s.is_text)}
             /\ Cardinality(CellsHolding(s, KEY)) = 1 =>
                   CellsHolding(s, KEY) = {CellOfCoordinate(s.key)})
    /\ [][/\ Cardinality(CellsHolding(new_state', IS_TEXT))
                 = Cardinality(CellsHolding(new_state, IS_TEXT))
          /\ Cardinality(CellsHolding(new_state', KEY))
                 <= Cardinality(CellsHolding(new_state, KEY))
          /\ Cardinality(CellsHolding(new_state', KEY)) >= 1]_vars

\* The last ApplyMove pushed the key and IS_TEXT, each the only one of its level,
\* and the cached coordinates followed them.
KeyAndIsTextPushedTogether ==
    /\ MoveApplied
    /\ new_state.key # state.key
    /\ new_state.is_text # state.is_text
    /\ CellsHolding(new_state, KEY) = {CellOfCoordinate(new_state.key)}
    /\ CellsHolding(new_state, IS_TEXT) = {CellOfCoordinate(new_state.is_text)}

\* Both Babas of s are alive and on one cell.
Coincide(s) == s.baba1.i # BABA_DEAD /\ s.baba2.i # BABA_DEAD /\ s.baba1 = s.baba2

\* C33: when both Babas of the receiver are alive and on one cell, both Babas of
\* the state ApplyMove returns are alive and on one cell, whatever the direction:
\* so it is after every later ApplyMove as well.
CoincidingBabasStayTogether ==
    /\ [][Coincide(new_state) => Coincide(new_state')]_vars
    /\ [](Coincide(state) => Coincide(new_state))

\* The Babas stood on one cell and made a step together, Baba 1 pushing what lay
\* before them and Baba 2 following onto the cell it cleared.
SteppedTogether ==
    /\ MoveApplied
    /\ Coincide(state)
    /\ Coincide(new_state)
    /\ new_state.baba1 # state.baba1
    /\ new_state.grid # state.grid
    /\ state.turn >= 1

\* The dead sentinel in both fields of a Baba's coordinate.
DeadCoordinate == Coordinate(BABA_DEAD, BABA_DEAD)

\* The other Baba.
OtherBaba(b) == IF b = "baba1" THEN "baba2" ELSE "baba1"

\* The receiver's copy after the Baba b alone has made its move.
AfterMoveOfOnly(s, b, direction) == MoveBaba(GameStateCopy(s), b, direction)

\* C34: a Baba whose coordinate is the dead sentinel in the receiver has it in
\* the state ApplyMove returns; the grid ApplyMove returns is then the one the
\* other Baba's move alone leaves (the receiver's grid if both are dead); and a
\* Baba alive in the receiver is dead in the state returned exactly when, once
\* both Babas have moved, its cell holds nothing and the two Babas' coordinates
\* differ.
DeathIsPermanentAndInert ==
    MoveApplied =>
        \A b \in {"baba1", "baba2"} :
            /\ state[b].i = BABA_DEAD =>
                  /\ state[b] = DeadCoordinate
                  /\ new_state[b] = DeadCoordinate
                  /\ new_state.grid = AfterMoveOfOnly(state, OtherBaba(b), dir_to_apply).grid
                  /\ state[OtherBaba(b)].i = BABA_DEAD => new_state.grid = state.grid
            /\ state[b].i # BABA_DEAD =>
                  LET moved == MoveBothBabas(GameStateCopy(state), dir_to_apply)
                  IN  (new_state[b] = DeadCoordinate)
                         <=> /\ moved.grid[moved[b].i][moved[b].j] = 0
                             /\ moved.baba1 # moved.baba2

\* Baba 1 was dead when the move was made and is still; Baba 2, alive, pushed
\* something with that move.
LiveBabaPushedBesideDeadOne ==
    /\ MoveApplied
    /\ state.baba1 = DeadCoordinate
    /\ new_state.baba1 = DeadCoordinate
    /\ new_state.baba2.i # BABA_DEAD
    /\ new_state.grid # state.grid

\* The cell next to Baba b of s in the direction is in the grid and holds a rock
\* and nothing else that moves or blocks.
FacesLoneRock(s, b, direction) ==
    /\ s[b].i # BABA_DEAD
    /\ InsideGrid(CellAhead(s, b, direction, 1))
    /\ CellContainsGameObject(CellAt(s, CellAhead(s, b, direction, 1)), ROCK)
    /\ ~CellContainsMovableObject(CellAt(s, CellAhead(s, b, direction, 1)), FALSE)
    /\ ~CellContainsImmovableObject(CellAt(s, CellAhead(s, b, direction, 1)))

\* C35: within one ApplyMove both Babas' moves use the rule flag of the receiver.
\* After Baba 1's move and after Baba 2's move the flag is still the receiver's,
\* the grid ApplyMove returns is the grid Baba 2's move leaves under that flag, and
\* the returned flag is the one the recalculation finds on that grid. So when the
\* receiver's flag is true, Baba 2 pushes a rock with a free cell behind it even if
\* Baba 1 has just broken the rule text; and when it is false, Baba 2 walks onto a
\* lone rock's cell and leaves the rock there even if Baba 1 has just completed it.
RuleFlagHeldThroughMove ==
    MoveApplied =>
        LET first == AfterMoveOfOnly(state, "baba1", dir_to_apply)
            second == MoveBaba(first, "baba2", dir_to_apply)
            rocks_cell == CellAhead(first, "baba2", dir_to_apply, 1)
            cell_behind == CellAhead(first, "baba2", dir_to_apply, 2)
        IN  /\ first.rock_is_push_active = state.rock_is_push_active
            /\ second.rock_is_push_active = state.rock_is_push_active
            /\ new_state.grid = second.grid
            /\ new_state.rock_is_push_active = CheckRockIsPushIntact(second)
            /\ (state.rock_is_push_active /\ FacesLoneRock(first, "baba2", dir_to_apply)
                  /\ FacesFreeRock(first, "baba2", dir_to_apply))
                  => /\ ~CellContainsGameObject(CellAt(new_state, rocks_cell), ROCK)
                     /\ CellContainsGameObject(CellAt(new_state, cell_behind), ROCK)
            /\ (~state.rock_is_push_active /\ FacesLoneRock(first, "baba2", dir_to_apply))
                  => /\ CellContainsGameObject(CellAt(new_state, rocks_cell), ROCK)
                     /\ new_state.baba2 = rocks_cell
                     /\ CellsHolding(new_state, ROCK) = CellsHolding(first, ROCK)

\* Baba 1's push took IS_TEXT out of the line, and in the same move Baba 2 still
\* pushed the rock before it; the state returned has the rule off.
RockPushedAfterLineBroken ==
    /\ MoveApplied
    /\ state.rock_is_push_active
    /\ ~CheckRockIsPushIntact(AfterMoveOfOnly(state, "baba1", dir_to_apply))
    /\ FacesFreeRock(AfterMoveOfOnly(state, "baba1", dir_to_apply), "baba2", dir_to_apply)
    /\ CellContainsGameObject(CellAt(new_state, CellAhead(state, "baba2", dir_to_apply, 2)), ROCK)
    /\ ~CellContainsGameObject(CellAt(new_state, CellAhead(state, "baba2", dir_to_apply, 1)), ROCK)
    /\ ~new_state.rock_is_push_active

\* Baba 1's push put IS_TEXT into the line, and in the same move Baba 2 still
\* walked onto the rock before it; the state returned has the rule on.
RockSharedAfterLineCompleted ==
    /\ MoveApplied
    /\ ~state.rock_is_push_active
    /\ CheckRockIsPushIntact(AfterMoveOfOnly(state, "baba1", dir_to_apply))
    /\ FacesLoneRock(state, "baba2", dir_to_apply)
    /\ new_state.baba2 = CellAhead(state, "baba2", dir_to_apply, 1)
    /\ CellContainsGameObject(CellAt(new_state, new_state.baba2), ROCK)
    /\ new_state.rock_is_push_active

\* The cell holds a rock, a tile or both, and nothing else.
RockOrTileOnly(cell) == cell \in {Bit(ROCK), Bit(TILE), Bit(ROCK) + Bit(TILE)}

\* The always-movable objects the cell holds.
AlwaysMovablesIn(cell) ==
    {ALWAYS_MOVABLE_OBJECTS[k] : k \in {n \in 1 .. Len(ALWAYS_MOVABLE_OBJECTS) :
                                           CellContainsGameObject(cell, ALWAYS_MOVABLE_OBJECTS[n])}}

\* C36: with the rule flag false a rock is neither pushed nor an obstacle. A live
\* Baba whose next cell holds only a rock and/or a tile enters it and the grid is
\* left as it was. When the next cell holds always-movable objects and no door, and
\* the cell after it holds only a rock and/or a tile, the Baba enters the next cell,
\* the always-movable objects go one cell further and share it with what was there,
\* and no other cell changes. No MoveBaba call changes the set of cells holding a
\* rock, and neither does the move as a whole.
RuleOffRockIsNoObstacle ==
    (MoveApplied /\ ~state.rock_is_push_active) =>
        /\ CellsHolding(new_state, ROCK) = CellsHolding(state, ROCK)
        /\ \A b \in BabaNames :
              LET before == StateBeforeMoveOf(state, b, dir_to_apply)
                  after == MoveBaba(before, b, dir_to_apply)
                  next == CellAhead(before, b, dir_to_apply, 1)
                  further == CellAhead(before, b, dir_to_apply, 2)
              IN  /\ CellsHolding(after, ROCK) = CellsHolding(before, ROCK)
                  /\ (before[b].i # BABA_DEAD /\ InsideGrid(next))
                        => /\ RockOrTileOnly(CellAt(before, next))
                                => (after[b] = next /\ after.grid = before.grid)
                           /\ (/\ AlwaysMovablesIn(CellAt(before, next)) # {}
                               /\ ~CellContainsImmovableObject(CellAt(before, next))
                               /\ InsideGrid(further)
                               /\ RockOrTileOnly(CellAt(before, further)))
                                => /\ after[b] = next
                                   /\ AlwaysMovablesIn(CellAt(after, next)) = {}
                                   /\ AlwaysMovablesIn(CellAt(after, further))
                                         = AlwaysMovablesIn(CellAt(before, next))
                                   /\ \A obj \in {ROCK, TILE} :
                                         /\ CellContainsGameObject(CellAt(after, next), obj)
                                               <=> CellContainsGameObject(CellAt(before, next), obj)
                                         /\ CellContainsGameObject(CellAt(after, further), obj)
                                               <=> CellContainsGameObject(CellAt(before, further), obj)
                                   /\ \A i \in Rows, j \in Cols :
                                         Coordinate(i, j) \notin {next, further}
                                             => after.grid[i][j] = before.grid[i][j]

\* With the rule off Baba 1 has pushed the key into a rock's cell: the key and the
\* rock share the cell and Baba 1 stands where the key lay.
KeyPushedOntoRockWithRuleOff ==
    /\ MoveApplied
    /\ ~state.rock_is_push_active
    /\ state.baba1.i # BABA_DEAD
    /\ InsideGrid(CellAhead(state, "baba1", dir_to_apply, 2))
    /\ CellContainsGameObject(CellAt(state, CellAhead(state, "baba1", dir_to_apply, 1)), KEY)
    /\ RockOrTileOnly(CellAt(state, CellAhead(state, "baba1", dir_to_apply, 2)))
    /\ CellContainsGameObject(CellAt(state, CellAhead(state, "baba1", dir_to_apply, 2)), ROCK)
    /\ new_state.baba1 = CellAhead(state, "baba1", dir_to_apply, 1)
    /\ CellContainsGameObject(CellAt(new_state, CellAhead(state, "baba1", dir_to_apply, 2)), KEY)
    /\ CellContainsGameObject(CellAt(new_state, CellAhead(state, "baba1", dir_to_apply, 2)), ROCK)

(***************************************************************************)
(* The (row, column) pairs the methods index _grid with.                   *)
(***************************************************************************)
GridIndexes == Rows \X Cols

\* The cells CheckCellAndMoveObjects(i, j, delta_i, delta_j, ...) reads and writes
\* on s, the calls it makes to itself included: _grid[i][j], and
\* _grid[next_i][next_j] once it has got past WillGoOutOfBounds.
RECURSIVE IndexesOfCheckCell(_, _, _, _, _)
IndexesOfCheckCell(s, i, j, delta_i, delta_j) ==
    IF <<i, j>> \notin GridIndexes
    THEN {<<i, j>>}
    ELSE IF \/ CellContainsGameObject(s.grid[i][j], IMMOVABLE)
            \/ CellContainsGameObject(s.grid[i][j], DOOR)
            \/ ~CellContainsMovableObject(s.grid[i][j], s.rock_is_push_active)
            \/ WillGoOutOfBounds(i, j, delta_i, delta_j)
    THEN {<<i, j>>}
    ELSE {<<i, j>>, <<i + delta_i, j + delta_j>>}
             \cup IndexesOfCheckCell(s, i + delta_i, j + delta_j, delta_i, delta_j)

\* The cells MoveBaba indexes: none when the Baba is dead or at the edge it faces.
IndexesOfMoveBaba(s, b, direction) ==
    IF s[b].i = BABA_DEAD \/ BabaAtEdge(s[b], direction)
    THEN {}
    ELSE IndexesOfCheckCell(s, s[b].i + DeltaI(direction), s[b].j + DeltaJ(direction),
                            DeltaI(direction), DeltaJ(direction))

\* The cells RecalculateState indexes: each live Baba's cell unless the Babas share
\* one, and in CheckRockIsPushIntact the cells above and below, left and right of
\* _is_text that its tests let it read.
IndexesOfRecalculate(s) ==
    (IF BabasOnSameSpace(s)
     THEN {}
     ELSE {<<s[b].i, s[b].j>> : b \in {n \in {"baba1", "baba2"} : s[n].i # BABA_DEAD}})
    \cup (IF s.is_text.i > 0 /\ s.is_text.i < GRID_HEIGHT - 1
          THEN {<<s.is_text.i - 1, s.is_text.j>>, <<s.is_text.i + 1, s.is_text.j>>}
          ELSE {})
    \cup (IF s.is_text.j > 0 /\ s.is_text.j < GRID_WIDTH - 1
          THEN {<<s.is_text.i, s.is_text.j - 1>>, <<s.is_text.i, s.is_text.j + 1>>}
          ELSE {})

(***************************************************************************)
(* TwinSpec: two branches of the search from one level. new_state is the   *)
(* state the round in hand got from ApplyMove; the memo table is cut down  *)
(* to the one key an earlier round of another branch stored.               *)
(***************************************************************************)
\* A level with two corridors: Baba 1 at (5, 4) below the object first, with walls
\* to its right, Baba 2 at (10, 10) left of the object second, with walls above.
\* UP moves Baba 1 and first only, RIGHT moves Baba 2 and second only.
CorridorScene(first, second, others) ==
    GameStateCtor(
        GridOf(PlatformTiles
               \cup {<<DOOR_I, DOOR_J, DOOR>>,
                     <<4, 5, IMMOVABLE>>, <<5, 5, IMMOVABLE>>,
                     <<9, 10, IMMOVABLE>>, <<9, 11, IMMOVABLE>>,
                     <<4, 4, first>>, <<10, 11, second>>}
               \cup others),
        Coordinate(5, 4), Coordinate(10, 10))

RuleTextInRowFour == {<<4, 11, ROCK_TEXT>>, <<4, 12, IS_TEXT>>, <<4, 13, PUSH_TEXT>>}

\* The supplied level; a corridor level with one key and one IS_TEXT; one with two
\* keys; one with two IS_TEXT, the first a push away from completing the rule,
\* and a rock left of the cell Baba 1 then stands on.
TwinLevels ==
    {FloatiestPlatformsLevel,
     CorridorScene(ROCK, KEY, RuleTextInRowFour),
     CorridorScene(KEY, KEY, RuleTextInRowFour),
     CorridorScene(IS_TEXT, IS_TEXT,
                   {<<3, 3, ROCK_TEXT>>, <<3, 5, PUSH_TEXT>>, <<12, 3, KEY>>, <<4, 3, ROCK>>})}

\* seen_states[initial_state] = 0, and no move made yet.
TwinInit ==
    /\ new_state \in TwinLevels
    /\ state = new_state
    /\ dir_to_apply = NO_DIRECTION
    /\ layout = NULL
    /\ pc = "idle"
    /\ options = SolverOptions(1, 2, 2, 2, 10000000)
    /\ initial_state = new_state
    /\ current_state = NULL
    /\ iter_root = NULL
    /\ iteration = 0
    /\ stack = <<>>
    /\ seen_states = {[key |-> new_state, turn |-> 0]}
    /\ total_num_moves = 0
    /\ total_cache_hits = 0
    /\ total_cache_size = 0
    /\ leaf_state_count = 0
    /\ winning_state = NULL
    /\ parallelism_roots = <<>>
    /\ best_leaf_states = <<>>
    /\ next_thread_id = 0
    /\ num_threads_finished = 0
    /\ mutex = 0
    /\ workers = <<>>
    /\ result = NULL
    /\ null_deref = FALSE

\* An earlier round: cur.state->ApplyMove(cur.dir_to_apply) on the stored state, and
\* the result stored as the key.
TwinStore(direction) ==
    /\ \E e \in seen_states :
          /\ e.key.turn < options.max_turn_depth
          /\ seen_states' = {[key |-> ApplyMove(e.key, direction), turn |-> e.key.turn + 1]}
    /\ UNCHANGED <<game_vars, pc, options, initial_state, current_state, iter_root, iteration,
                   stack, total_num_moves, total_cache_hits, total_cache_size,
                   leaf_state_count, winning_state, parallelism_roots, best_leaf_states,
                   next_thread_id, num_threads_finished, mutex, workers, result, null_deref>>

\* The round in hand: new_state = cur.state->ApplyMove(cur.dir_to_apply).
TwinArrive(direction) ==
    /\ new_state.turn < options.max_turn_depth
    /\ state' = new_state
    /\ dir_to_apply' = direction
    /\ new_state' = ApplyMove(new_state, direction)
    /\ UNCHANGED <<layout, solve_vars>>

TwinNext == \E direction \in Directions : TwinStore(direction) \/ TwinArrive(direction)

TwinSpec == TwinInit /\ [][TwinNext]_vars

\* Exactly one cell of s holds obj.
InOneCell(s, obj) == Cardinality(CellsHolding(s, obj)) = 1

\* a and b give the same results to ApplyMove in every direction, as GameStateEqual
\* sees them.
SameSuccessors(a, b) ==
    \A direction \in Directions :
        GameStateEqual(ApplyMove(a, direction), ApplyMove(b, direction))

\* C37 as written: two states of one level that GameStateEqual holds of have equal
\* ApplyMove results in every direction and agree on HaveWon, CheckIfPossibleToWin
\* and CalculateScore.
EqualStatesAgree ==
    \A e \in seen_states :
        GameStateEqual(e.key, new_state)
            => /\ SameSuccessors(e.key, new_state)
               /\ HaveWon(e.key) = HaveWon(new_state)
               /\ CheckIfPossibleToWin(e.key) = CheckIfPossibleToWin(new_state)
               /\ CalculateScore(e.key) = CalculateScore(new_state)

\* C37: two states of one level that GameStateEqual holds of agree on HaveWon. When
\* one cell holds IS_TEXT they have the same cached IS_TEXT coordinate and rule
\* flag, equal ApplyMove results in every direction, and agree on
\* CheckIfPossibleToWin; when moreover one cell holds KEY they have the same cached
\* key coordinate and agree on CalculateScore.
EqualStatesOfOneKeyAndIsTextAgree ==
    \A e \in seen_states :
        GameStateEqual(e.key, new_state)
            => /\ HaveWon(e.key) = HaveWon(new_state)
               /\ InOneCell(new_state, IS_TEXT)
                     => /\ e.key.is_text = new_state.is_text
                        /\ e.key.rock_is_push_active = new_state.rock_is_push_active
                        /\ SameSuccessors(e.key, new_state)
                        /\ CheckIfPossibleToWin(e.key) = CheckIfPossibleToWin(new_state)
               /\ (InOneCell(new_state, IS_TEXT) /\ InOneCell(new_state, KEY))
                     => /\ e.key.key = new_state.key
                        /\ CalculateScore(e.key) = CalculateScore(new_state)

\* Two branches pushed the rock and the key of a level in different orders and
\* reached states GameStateEqual holds of: they score the same and their moves
\* lead to equal states.
PushesInEitherOrderMeet ==
    \E e \in seen_states :
        /\ e.key.moves = <<UP, RIGHT>>
        /\ new_state.moves = <<RIGHT, UP>>
        /\ GameStateEqual(e.key, new_state)
        /\ new_state.grid # initial_state.grid
        /\ CellsHolding(new_state, ROCK) # CellsHolding(initial_state, ROCK)
        /\ InOneCell(new_state, IS_TEXT) /\ InOneCell(new_state, KEY)
        /\ new_state.key # initial_state.key
        /\ CheckIfPossibleToWin(new_state)
        /\ CalculateScore(e.key) = CalculateScore(new_state)
        /\ SameSuccessors(e.key, new_state)

(***************************************************************************)
(* ForkSpec: the parallel phase reduced to what the lambda does to the     *)
(* thread ids and to best_leaf_states, for as many fork roots as the       *)
(* sequential phase can leave. A vector is held as the sequence of its     *)
(* runs of equal elements; a slot of best_leaf_states holds the number of  *)
(* workers that have assigned it; the elements of parallelism_roots are    *)
(* worked on one after the other, which std::execution::par allows. The    *)
(* game states play no part and are left out.                              *)
(***************************************************************************)
\* n elements equal to v.
Run(n, v) == IF n = 0 THEN <<>> ELSE <<[count |-> n, value |-> v]>>

\* vector.size()
RECURSIVE RunsSize(_)
RunsSize(runs) == IF runs = <<>> THEN 0 ELSE Head(runs).count + RunsSize(Tail(runs))

\* vector[idx], idx counted from 0.
RECURSIVE RunsAt(_, _)
RunsAt(runs, idx) ==
    IF idx < Head(runs).count
    THEN Head(runs).value
    ELSE RunsAt(Tail(runs), idx - Head(runs).count)

RECURSIVE RunsWrite(_, _, _)
RunsWrite(runs, idx, v) ==
    IF idx >= Head(runs).count
    THEN <<Head(runs)>> \o RunsWrite(Tail(runs), idx - Head(runs).count, v)
    ELSE Run(idx, Head(runs).value) \o Run(1, v)
             \o Run(Head(runs).count - idx - 1, Head(runs).value) \o Tail(runs)

RECURSIVE RunsMerge(_)
RunsMerge(runs) ==
    IF Len(runs) < 2
    THEN runs
    ELSE IF runs[1].value = runs[2].value
    THEN RunsMerge(Run(runs[1].count + runs[2].count, runs[1].value)
                       \o SubSeq(runs, 3, Len(runs)))
    ELSE <<runs[1]>> \o RunsMerge(Tail(runs))

\* vector[idx] = v
VectorAssign(runs, idx, v) == RunsMerge(RunsWrite(runs, idx, v))

\* The index of the first element of the vector whose pc is p; the vector has one.
RECURSIVE FirstAt(_, _)
FirstAt(runs, p) ==
    IF Head(runs).value.pc = p THEN 0 ELSE Head(runs).count + FirstAt(Tail(runs), p)

SomeAt(runs, p) == \E k \in 1 .. Len(runs) : runs[k].value.pc = p

\* parallelism_roots.size() after the sequential phase for The Floatiest Platforms
\* with max_cache_depth 0 and parallelism_depth 1, 7, 8 and 9: the move sequences
\* of that length none of whose states wins or fails CheckIfPossibleToWin.
ForkRootCounts == {4, 7472, 25718, 85868}

\* The state AfterLoop leaves when no winning state was found.
ForkInit ==
    /\ new_state = NULL
    /\ state = NULL
    /\ dir_to_apply = NO_DIRECTION
    /\ layout = NULL
    /\ pc = "parallel"
    /\ options \in {SolverOptions(1, 25, d, 0, 10000000) : d \in {1, 7, 8, 9}}
    /\ initial_state = NULL
    /\ current_state = NULL
    /\ iter_root = NULL
    /\ iteration = 0
    /\ stack = <<>>
    /\ seen_states = {}
    /\ total_num_moves = 0
    /\ total_cache_hits = 0
    /\ total_cache_size = 0
    /\ leaf_state_count = 0
    /\ winning_state = NULL
    /\ \E n \in ForkRootCounts :
          /\ (n = 4) = (options.parallelism_depth = 1)
          /\ (n = 7472) = (options.parallelism_depth = 7)
          /\ (n = 25718) = (options.parallelism_depth = 8)
          /\ parallelism_roots = Run(n, "root")
          /\ best_leaf_states = Run(n, 0)
          /\ workers = Run(n, [pc |-> "unstarted"])
    /\ next_thread_id = 0
    /\ num_threads_finished = 0
    /\ mutex = 0
    /\ result = NULL
    /\ null_deref = FALSE

\* The lambda applied to the next element: thread_id = next_thread_id++ in the
\* first critical section, and in the completion block ++num_threads_finished and
\* best_leaf_states[thread_id] = best_leaf_state (both counters uint16_t).
ForkWorker ==
    /\ pc = "parallel"
    /\ SomeAt(workers, "unstarted")
    /\ LET thread_id == next_thread_id
       IN  /\ next_thread_id' = (next_thread_id + 1) % 65536
           /\ best_leaf_states' = VectorAssign(best_leaf_states, thread_id,
                                               RunsAt(best_leaf_states, thread_id) + 1)
    /\ num_threads_finished' = (num_threads_finished + 1) % 65536
    /\ workers' = VectorAssign(workers, FirstAt(workers, "unstarted"), [pc |-> "done"])
    /\ UNCHANGED <<game_vars, pc, options, initial_state, current_state, iter_root, iteration,
                   stack, seen_states, total_num_moves, total_cache_hits, total_cache_size,
                   leaf_state_count, winning_state, parallelism_roots, mutex, result,
                   null_deref>>

\* std::for_each returns once every element has been worked on.
ForkJoin ==
    /\ pc = "parallel"
    /\ ~SomeAt(workers, "unstarted")
    /\ pc' = "results"
    /\ UNCHANGED <<game_vars, options, initial_state, current_state, iter_root, iteration,
                   stack, seen_states, total_num_moves, total_cache_hits, total_cache_size,
                   leaf_state_count, winning_state, parallelism_roots, best_leaf_states,
                   next_thread_id, num_threads_finished, mutex, workers, result, null_deref>>

ForkNext == ForkWorker \/ ForkJoin

ForkSpec == ForkInit /\ [][ForkNext]_vars

\* C38: every worker of the parallel phase has a thread id below the number of
\* fork roots that no worker before it had: no slot of best_leaf_states has been
\* assigned by more than one worker, the worker to come is going to assign a slot
\* of the vector that no one has assigned, and once std::for_each has returned
\* every slot has been assigned by exactly one worker, however many fork roots
\* there are.
EachSlotWrittenByOneWorker ==
    /\ \A k \in 1 .. Len(best_leaf_states) : best_leaf_states[k].value <= 1
    /\ (pc = "parallel" /\ SomeAt(workers, "unstarted"))
          => /\ next_thread_id < RunsSize(parallelism_roots)
             /\ RunsAt(best_leaf_states, next_thread_id) = 0
    /\ pc = "results" => \A k \in 1 .. Len(best_leaf_states) : best_leaf_states[k].value = 1

(***************************************************************************)
(* Properties of the grid indexes, stated on GameSpec.                     *)
(***************************************************************************)
\* C39: every (row, column) ApplyMove indexes the grid with is in the grid. For
\* the state last returned and each direction: the cells Baba 1's MoveBaba call
\* and its CheckCellAndMoveObjects calls index, the cells Baba 2's calls index on
\* the state Baba 1's move left, and the cells RecalculateState and
\* CheckRockIsPushIntact index after both moves are within 0 .. GRID_HEIGHT - 1
\* and 0 .. GRID_WIDTH - 1; a Baba in row or column 0 that faces the edge indexes
\* no cell at all, and a live Baba's coordinates and the cached coordinates are
\* never the -1 a step off the edge would give.
IndexesStayInGrid ==
    /\ \A direction \in Directions :
          /\ IndexesOfMoveBaba(GameStateCopy(new_state), "baba1", direction) \subseteq GridIndexes
          /\ IndexesOfMoveBaba(AfterMoveOfOnly(new_state, "baba1", direction), "baba2",
                               direction) \subseteq GridIndexes
          /\ IndexesOfRecalculate(StateAfterBothMoves(new_state, direction)) \subseteq GridIndexes
          /\ \A b \in BabaNames :
                (new_state[b].i # BABA_DEAD /\ BabaAtEdge(new_state[b], direction))
                    => IndexesOfMoveBaba(new_state, b, direction) = {}
    /\ IndexesOfRecalculate(new_state) \subseteq GridIndexes
    /\ \A b \in BabaNames :
          new_state[b] = DeadCoordinate \/ <<new_state[b].i, new_state[b].j>> \in GridIndexes
    /\ <<new_state.is_text.i, new_state.is_text.j>> \in GridIndexes
    /\ <<new_state.key.i, new_state.key.j>> \in GridIndexes

\* IS_TEXT has been pushed into row 0, where it completes the rule, and Baba 2
\* pushes on: the push is refused at the edge, the test above and below IS_TEXT is
\* skipped, and the test left and right of it finds the rule.
PushedToTheEdgeAndNoFurther ==
    /\ MoveApplied
    /\ dir_to_apply = UP
    /\ state.is_text.i = 0
    /\ state.baba2 = Coordinate(1, state.is_text.j)
    /\ new_state.baba2 = state.baba2
    /\ new_state.grid = state.grid
    /\ new_state.rock_is_push_active
    /\ IndexesOfMoveBaba(StateBeforeMoveOf(state, "baba2", UP), "baba2", UP)
          = {<<0, state.is_text.j>>}
    /\ <<1, state.is_text.j>> \in IndexesOfRecalculate(new_state)
    /\ \A c \in IndexesOfRecalculate(new_state) : c[1] >= 0

====
